---- MODULE Spec2Model ----
(***************************************************************************)
(* A model of the gathering cache of primitive_metadata:                   *)
(*   - the value model and the tripledict (primitive_rdf.py),              *)
(*   - Focus, the gatherer signup and the Gathering/_GatherCache engine    *)
(*     (gather.py).                                                        *)
(* An `ask` runs as a sequence of steps over an explicit call stack; the   *)
(* iteration order of python sets and dicts is a nondeterministic choice.  *)
(***************************************************************************)
EXTENDS Integers, Sequences, FiniteSets, TLC

VARIABLES
    signup,         \* _GathererSignup of the organizer
    declared,       \* what each registered gatherer was decorated with
    lookup,         \* the last direct call of signup.get_gatherers
    dicts,          \* tripledict objects by identity; DictOfCache is the cache's
    gathers_done,   \* _GatherCache.gathers_done
    focus_set,      \* _GatherCache.focus_set
    stack,          \* call stack of the running ask (top is the last frame)
    call,           \* the running ask, or the last one once it is over
    invocations,    \* how often each (gatherer, Focus) was invoked
    leafed,         \* what leaf_a_record returned so far
    made,           \* the last value a caller built or read back on its own
    all_about,      \* the running ask_all_about, or the last one once it is over
    crawler,        \* the BasketCrawler that crawls, or the last one once it is over
    gatherings      \* the Gathering objects of the organizer and their caches

vars == <<signup, declared, lookup, dicts, gathers_done, focus_set,
          stack, call, invocations, leafed, made, all_about, crawler, gatherings>>

cachevars == <<dicts, gathers_done, focus_set, stack, call, invocations, leafed>>

----------------------------------------------------------------------------
(* Vocabulary.                                                             *)

RDF_type == "rdf:type"
OWL_sameAs == "owl:sameAs"
RDF_Seq == "rdf:Seq"
RDF_Bag == "rdf:Bag"
RDF_Alt == "rdf:Alt"
RDF_Container == "rdf:Container"
RDF__1 == "rdf:_1"
RDF__2 == "rdf:_2"

MaxItems == 11      \* the longest list made into a container

(* RDF[f'_{_index+1}']                                                     *)
IndexName(n) == "rdf:_" \o ToString(n)

IndexPreds == {IndexName(n) : n \in 1..MaxItems}

(* RdfObject values, tagged by their python type.                          *)
Iri(s) == [k |-> "iri", v |-> s]
Lit(s) == [k |-> "lit", v |-> s]
Int_(n) == [k |-> "int", v |-> n]
Bnode(S) == [k |-> "bnode", v |-> S]
None == [k |-> "none", v |-> ""]
FocusPart(f) == [k |-> "focus", v |-> f]

EmptyDict == << >>

----------------------------------------------------------------------------
(* primitive_rdf.py                                                        *)

(* a twopledict that keeps one object of each predicate                    *)
twopledict_from_twopleset_one_each(twopleset) ==
    [p \in {tw[1] : tw \in twopleset} |->
        {CHOOSE o \in {tw[2] : tw \in {x \in twopleset : x[1] = p}} : TRUE}]

twopledict_from_twopleset(twopleset) ==
    [p \in {tw[1] : tw \in twopleset} |-> {tw[2] : tw \in {x \in twopleset : x[1] = p}}]

is_container(bnode) ==
    \E ct \in {RDF_Seq, RDF_Bag, RDF_Alt, RDF_Container} : <<RDF_type, Iri(ct)>> \in bnode

(* the twoples of a container whose predicate is rdf:_n                    *)
enumerate_container(bnode) ==
    {tw \in bnode : tw[1] \in IndexPreds}

container_objects(bnode) ==
    {tw[2] : tw \in enumerate_container(bnode)}

(* iter_twoples, and blanknode: an empty or absent twopledict is falsy     *)
iter_twoples(twopledict) ==
    UNION {{<<pred, obj>> : obj \in twopledict[pred]} : pred \in DOMAIN twopledict}

blanknode(twopledict) ==
    IF twopledict # << >> THEN iter_twoples(twopledict) ELSE {}

(* container(container_type, items), of a list of items                    *)
container(container_type, items) ==
    {<<RDF_type, Iri(container_type)>>}
        \cup {<<IndexName(index + 1), items[index + 1]>> : index \in 0..(Len(items) - 1)}

sequence(items) == container(RDF_Seq, items)

(* int(IriNamespace.name(_pred, namespace=_INDEX_NAMESPACE)) of a          *)
(* predicate that _enumerate_container keeps                               *)
container_index(pred) == CHOOSE n \in 1..MaxItems : IndexName(n) = pred

(* where the name rdf:_n stands among the names in the order of strings    *)
name_rank(n) == IF n < 10 THEN 100 * n ELSE 100 * (n \div 10) + (n % 10) + 1

(* sorted(keyed, key=itemgetter(0)) then itemgetter(1): every list the     *)
(* stable sort can give, the set being iterated in any order               *)
RECURSIVE sorted_objects(_)
sorted_objects(keyed) ==
    IF keyed = {} THEN {<< >>}
    ELSE LET least == {x \in keyed : \A y \in keyed : x[1] <= y[1]}
         IN  UNION {{<<x[2]>> \o rest : rest \in sorted_objects(keyed \ {x})} : x \in least}

(* sequence_objects_in_order sorting by the names of the predicates        *)
sequence_objects_in_order_by_name(seq) ==
    IF <<RDF_type, Iri(RDF_Seq)>> \notin seq
    THEN [raised |-> TRUE, lists |-> {}]
    ELSE [raised |-> FALSE,
          lists |-> sorted_objects({<<name_rank(container_index(tw[1])), tw[2]>> :
                                        tw \in enumerate_container(seq)})]

(* sequence_objects_in_order: AssertionError unless typed rdf:Seq          *)
sequence_objects_in_order(seq) ==
    IF <<RDF_type, Iri(RDF_Seq)>> \notin seq
    THEN [raised |-> TRUE, lists |-> {}]
    ELSE [raised |-> FALSE,
          lists |-> sorted_objects({<<container_index(tw[1]), tw[2]>> :
                                        tw \in enumerate_container(seq)})]

DictGet(d, key, default) ==
    IF key \in DOMAIN d THEN d[key] ELSE default

(* TripledictWrapper.add_triple: setdefault, setdefault, add               *)
add_triple_to(td, subj, pred, obj) ==
    LET twopledict == DictGet(td, subj, EmptyDict)
        objectset == DictGet(twopledict, pred, {})
        twopledict2 == [p \in (DOMAIN twopledict) \cup {pred} |->
                            IF p = pred THEN objectset \cup {obj} ELSE twopledict[p]]
    IN  [s \in (DOMAIN td) \cup {subj} |-> IF s = subj THEN twopledict2 ELSE td[s]]

(* the set of objects TripledictWrapper._iter_twopledict_objects yields    *)
RECURSIVE iter_twopledict_objects(_, _, _)
iter_twopledict_objects(td, twopledict, pathset) ==
    UNION {
        LET object_set == DictGet(twopledict, pred, {})
        IN  IF DOMAIN pathset[pred] = {}
            THEN object_set
            ELSE UNION {
                    IF obj.k = "iri"
                    THEN iter_twopledict_objects(
                            td, DictGet(td, obj.v, EmptyDict), pathset[pred])
                    ELSE IF obj.k = "bnode"
                    THEN iter_twopledict_objects(
                            td, twopledict_from_twopleset(obj.v), pathset[pred])
                    ELSE {}
                 : obj \in object_set }
      : pred \in DOMAIN pathset }

(* the calls _iter_twopledict_objects makes of itself: every object it    *)
(* goes into (an iri by its twopledict of the graph, a blank node by its   *)
(* own twoples, a container like any blank node), with the pathset it      *)
(* takes there                                                             *)
RECURSIVE iter_twopledict_descents(_, _, _)
iter_twopledict_descents(td, twopledict, pathset) ==
    UNION {
        LET object_set == DictGet(twopledict, pred, {})
        IN  IF DOMAIN pathset[pred] = {}
            THEN {}
            ELSE UNION {
                    IF obj.k = "iri"
                    THEN {<<obj, pathset[pred]>>} \cup iter_twopledict_descents(
                            td, DictGet(td, obj.v, EmptyDict), pathset[pred])
                    ELSE IF obj.k = "bnode"
                    THEN {<<obj, pathset[pred]>>} \cup iter_twopledict_descents(
                            td, twopledict_from_twopleset(obj.v), pathset[pred])
                    ELSE {}
                 : obj \in object_set }
      : pred \in DOMAIN pathset }

(* _merge_pathset replacing what `into` has under a predicate              *)
merge_pathset_replacing(from_pathset, into) ==
    [p \in (DOMAIN into) \cup (DOMAIN from_pathset) |->
        IF p \in DOMAIN from_pathset THEN from_pathset[p] ELSE into[p]]

(* _merge_pathset(from_pathset, into=...) as the resulting value of `into` *)
RECURSIVE merge_pathset(_, _)
merge_pathset(from_pathset, into) ==
    [p \in (DOMAIN into) \cup (DOMAIN from_pathset) |->
        IF p \in DOMAIN from_pathset
        THEN merge_pathset(from_pathset[p], DictGet(into, p, EmptyDict))
        ELSE into[p]]

(* messy pathsets are tagged: none, str, dict (pred -> messy), list        *)
RECURSIVE tidy_pathset(_)
RECURSIVE tidy_parallel(_, _)
tidy_parallel(messy_list, into) ==
    IF messy_list = << >> THEN into
    ELSE tidy_parallel(Tail(messy_list),
                       merge_pathset(tidy_pathset(Head(messy_list)), into))

tidy_pathset(messy) ==
    CASE messy.k = "none" -> EmptyDict
      [] messy.k = "str" -> IF messy.v = "" THEN EmptyDict ELSE (messy.v :> EmptyDict)
      [] messy.k = "dict" -> [p \in DOMAIN messy.v |-> tidy_pathset(messy.v[p])]
      [] messy.k = "list" -> tidy_parallel(messy.v, EmptyDict)

(* q yielding nothing, whatever the subject holds                          *)
q_yielding_nothing(td, subj, pathset) == {}

q(td, subj, pathset) ==
    iter_twopledict_objects(td, DictGet(td, subj, EmptyDict), pathset)

iter_tripleset(td) ==
    UNION {UNION {{<<s, p, o>> : o \in td[s][p]} : p \in DOMAIN td[s]} : s \in DOMAIN td}

----------------------------------------------------------------------------
(* gather.py: Focus                                                        *)

(* A Focus is the NamedTuple (iris, type_iris, gatherer_kwargset).  Its    *)
(* iris are a frozenset, whose iteration order belongs to the object and   *)
(* not to its value: iris_first is the shortest iri that the iteration     *)
(* meets first, the only trace of that order the program can observe.      *)
Shortest(iris) ==
    {i \in iris : \A j \in iris : Len(i) <= Len(j)}

FocusObjects(iris, type_iris, gatherer_kwargset) ==
    {[iris |-> iris, type_iris |-> type_iris,
      gatherer_kwargset |-> gatherer_kwargset, iris_first |-> i] : i \in Shortest(iris)}

(* equality and hash that leave the gatherer_kwargset out                  *)
FocusKey_without_kwargset(f) ==
    [iris |-> f.iris, type_iris |-> f.type_iris, gatherer_kwargset |-> {}]

(* what tuple equality and hash see of a Focus                             *)
FocusKey(f) ==
    [iris |-> f.iris, type_iris |-> f.type_iris,
     gatherer_kwargset |-> f.gatherer_kwargset]

(* min(self.iris, key=len): the first of the shortest                      *)
single_iri(f) == f.iris_first

(* the alphabet of the iris in use, for comparing strings                 *)
IriAlphabet == <<"a", "b", "c">>

IriIndex(iri) == CHOOSE n \in 1..Len(IriAlphabet) : IriAlphabet[n] = iri

(* primitive_rdf.choose_one_iri: min by (len(iri), iri)                    *)
choose_one_iri(iris) ==
    CHOOSE i \in Shortest(iris) : \A j \in Shortest(iris) : IriIndex(i) <= IriIndex(j)

(* as_rdf_tripleset without the test that skips the chosen iri             *)
as_rdf_tripleset_with_self(f) ==
    {<<single_iri(f), RDF_type, Iri(t)>> : t \in f.type_iris}
        \cup {<<single_iri(f), OWL_sameAs, Iri(i)>> : i \in f.iris}

as_rdf_tripleset(f) ==
    {<<single_iri(f), RDF_type, Iri(t)>> : t \in f.type_iris}
        \cup {<<single_iri(f), OWL_sameAs, Iri(i)>> : i \in f.iris \ {single_iri(f)}}

(* focus(iris, type_iris) with no gatherer_kwargset                        *)
focus(iris, type_iris) == FocusObjects(iris, type_iris, {})

----------------------------------------------------------------------------
(* gather.py: _GathererSignup                                              *)

EmptySignup ==
    [by_predicate |-> EmptyDict, by_focustype |-> EmptyDict,
     for_any_predicate |-> {}, for_any_focustype |-> {}]

(* for iri in iris: by_iri.setdefault(iri, set()).add(gatherer)            *)
SetdefaultAdd(by_iri, iris, gatherer) ==
    [i \in (DOMAIN by_iri) \cup iris |->
        IF i \in iris THEN DictGet(by_iri, i, {}) \cup {gatherer} ELSE by_iri[i]]

(* add_gatherer without the `else` that signs up for any predicate         *)
add_gatherer_no_any_predicate(su, gatherer, predicate_iris, focustype_iris) ==
    LET su1 == IF predicate_iris # {}
               THEN [su EXCEPT !.by_predicate =
                        SetdefaultAdd(su.by_predicate, predicate_iris, gatherer)]
               ELSE su
    IN  IF focustype_iris # {}
        THEN [su1 EXCEPT !.by_focustype =
                 SetdefaultAdd(su1.by_focustype, focustype_iris, gatherer)]
        ELSE [su1 EXCEPT !.for_any_focustype = @ \cup {gatherer}]

add_gatherer(su, gatherer, predicate_iris, focustype_iris) ==
    LET su1 == IF predicate_iris # {}
               THEN [su EXCEPT !.by_predicate =
                        SetdefaultAdd(su.by_predicate, predicate_iris, gatherer)]
               ELSE [su EXCEPT !.for_any_predicate = @ \cup {gatherer}]
    IN  IF focustype_iris # {}
        THEN [su1 EXCEPT !.by_focustype =
                 SetdefaultAdd(su1.by_focustype, focustype_iris, gatherer)]
        ELSE [su1 EXCEPT !.for_any_focustype = @ \cup {gatherer}]

all_predicate_iris(su) == DOMAIN su.by_predicate

(* itertools.chain of by_iri.get(iri, frozenset()) for iri in iris, and of *)
(* the gatherers for any iri                                              *)
gatherer_iter(iris, gatherers_by_iri, gatherers_for_any_iri) ==
    UNION {DictGet(gatherers_by_iri, iri, {}) : iri \in iris} \cup gatherers_for_any_iri

(* the loop with update in place of intersection_update                    *)
RECURSIVE get_gatherers_loop_update(_, _)
get_gatherers_loop_update(axes, gatherer_set) ==
    IF axes = << >> THEN gatherer_set.v
    ELSE LET axis == Head(axes)
             it == gatherer_iter(axis.iris, axis.by_iri, axis.for_any)
         IN  get_gatherers_loop_update(
                Tail(axes), [isnone |-> FALSE, v |-> gatherer_set.v \cup it])

(* the loop over the two axes; gatherer_set starts as None                 *)
RECURSIVE get_gatherers_loop(_, _)
get_gatherers_loop(axes, gatherer_set) ==
    IF axes = << >> THEN gatherer_set.v
    ELSE LET axis == Head(axes)
             it == gatherer_iter(axis.iris, axis.by_iri, axis.for_any)
         IN  get_gatherers_loop(
                Tail(axes),
                IF gatherer_set.isnone
                THEN [isnone |-> FALSE, v |-> it]
                ELSE [isnone |-> FALSE, v |-> gatherer_set.v \cap it])

get_gatherers(su, f, predicate_iris) ==
    get_gatherers_loop(
        << [iris |-> predicate_iris, by_iri |-> su.by_predicate,
            for_any |-> su.for_any_predicate],
           [iris |-> f.type_iris, by_iri |-> su.by_focustype,
            for_any |-> su.for_any_focustype] >>,
        [isnone |-> TRUE, v |-> {}])

----------------------------------------------------------------------------
(* gather.py: _GatherCache.  A cache value c is the record of the cache's  *)
(* tripledict, gathers_done and focus_set.                                 *)

DictOfCache == 1

CacheNow ==
    [td |-> dicts[DictOfCache], gathers_done |-> gathers_done, focus_set |-> focus_set]

EmptyCache == [td |-> EmptyDict, gathers_done |-> {}, focus_set |-> {}]

(* `focus in self.focus_set`: by value, not by identity                    *)
InFocusSet(c, f) ==
    \E x \in c.focus_set : FocusKey(x) = FocusKey(f)

RECURSIVE add_triples(_, _)
add_triples(td, triples) ==
    IF triples = {} THEN td
    ELSE LET t == CHOOSE x \in triples : TRUE
         IN  add_triples(add_triple_to(td, t[1], t[2], t[3]), triples \ {t})

(* add_focus keeping the Focus and none of its triples                     *)
add_focus_without_triples(c, f) ==
    IF InFocusSet(c, f) THEN c
    ELSE [c EXCEPT !.focus_set = @ \cup {f}]

add_focus(c, f) ==
    IF InFocusSet(c, f) THEN c
    ELSE [c EXCEPT !.focus_set = @ \cup {f},
                   !.td = add_triples(@, as_rdf_tripleset(f))]

(* __maybe_unwrap_focus giving the single_iri without adding the Focus     *)
maybe_unwrap_focus_not_added(c, maybefocus) ==
    IF maybefocus.k = "focus"
    THEN [c |-> c, v |-> Iri(single_iri(maybefocus.v))]
    ELSE [c |-> c, v |-> maybefocus]

(* __maybe_unwrap_focus, as the cache after it and the value it returns    *)
maybe_unwrap_focus(c, maybefocus) ==
    IF maybefocus.k = "focus"
    THEN [c |-> add_focus(c, maybefocus.v), v |-> Iri(single_iri(maybefocus.v))]
    ELSE [c |-> c, v |-> maybefocus]

(* _GatherCache.add_triple: unwrap the subject, then the object, then add  *)
add_triple(c, triple) ==
    LET s == maybe_unwrap_focus(c, triple[1])
        o == maybe_unwrap_focus(s.c, triple[3])
    IN  [o.c EXCEPT !.td = add_triple_to(@, s.v.v, triple[2].v, o.v)]

(* get_focus_by_iri that makes a Focus of an iri without any type          *)
get_focus_by_iri_untyped(c, iri) ==
    LET type_iris == {o.v : o \in q(c.td, iri, tidy_pathset([k |-> "str", v |-> RDF_type]))}
        same_iris == {o.v : o \in q(c.td, iri, tidy_pathset([k |-> "str", v |-> OWL_sameAs]))}
    IN  {[raised |-> FALSE, c |-> add_focus(c, f), focus |-> f] :
            f \in focus({iri} \cup same_iris, type_iris)}

(* the outcomes of get_focus_by_iri: GatherException when the iri has no   *)
(* type, else the Focus (in any iteration order of its iris), added        *)
get_focus_by_iri(c, iri) ==
    LET type_iris == {o.v : o \in q(c.td, iri, tidy_pathset([k |-> "str", v |-> RDF_type]))}
        same_iris == {o.v : o \in q(c.td, iri, tidy_pathset([k |-> "str", v |-> OWL_sameAs]))}
    IN  IF type_iris = {}
        THEN {[raised |-> TRUE, c |-> c, focus |-> None]}
        ELSE {[raised |-> FALSE, c |-> add_focus(c, f), focus |-> f] :
                f \in focus({iri} \cup same_iris, type_iris)}

(* _GatherCache.peek                                                       *)
peek(c, pathset, f) ==
    q(c.td, IF f.k = "focus" THEN single_iri(f.v) ELSE f.v, pathset)

(* already_gathered that never marks the gather as done                    *)
already_gathered_unmarked(c, gatherer, f) ==
    [is_done |-> <<gatherer, FocusKey(f)>> \in c.gathers_done, c |-> c]

(* already_gathered(gatherer, focus), as its result and the cache after    *)
already_gathered(c, gatherer, f) ==
    LET gatherkey == <<gatherer, FocusKey(f)>>
        is_done == gatherkey \in c.gathers_done
    IN  [is_done |-> is_done,
         c |-> IF ~is_done THEN [c EXCEPT !.gathers_done = @ \cup {gatherkey}] ELSE c]

----------------------------------------------------------------------------
(* gather.py: GatheringOrganizer.__make_triple_gatherer                    *)

(* the wrapper testing only the object for None                            *)
triple_gatherer_item_object_only(f, triple_or_twople) ==
    IF Len(triple_or_twople) \notin {2, 3}
    THEN [k |-> "raise", triple |-> << >>]
    ELSE LET triple == IF Len(triple_or_twople) = 3
                       THEN triple_or_twople
                       ELSE <<Iri(single_iri(f))>> \o triple_or_twople
         IN  IF triple[3] = None
             THEN [k |-> "skip", triple |-> << >>]
             ELSE [k |-> "yield", triple |-> triple]

(* the wrapper dropping tuples that are too short instead of raising       *)
triple_gatherer_item_short_dropped(f, triple_or_twople) ==
    IF Len(triple_or_twople) > 3
    THEN [k |-> "raise", triple |-> << >>]
    ELSE IF Len(triple_or_twople) < 2
    THEN [k |-> "skip", triple |-> << >>]
    ELSE LET triple == IF Len(triple_or_twople) = 3
                       THEN triple_or_twople
                       ELSE <<Iri(single_iri(f))>> \o triple_or_twople
         IN  IF \E i \in 1..3 : triple[i] = None
             THEN [k |-> "skip", triple |-> << >>]
             ELSE [k |-> "yield", triple |-> triple]

(* one item of the wrapped gatherer's output: "raise" for a tuple that is  *)
(* neither a triple nor a twople, "skip" for one with a None, else the     *)
(* triple                                                                  *)
triple_gatherer_item(f, triple_or_twople) ==
    IF Len(triple_or_twople) \notin {2, 3}
    THEN [k |-> "raise", triple |-> << >>]
    ELSE LET triple == IF Len(triple_or_twople) = 3
                       THEN triple_or_twople
                       ELSE <<Iri(single_iri(f))>> \o triple_or_twople
         IN  IF \E i \in 1..3 : triple[i] = None
             THEN [k |-> "skip", triple |-> << >>]
             ELSE [k |-> "yield", triple |-> triple]

----------------------------------------------------------------------------
(* The organizer that is modelled, its gatherers and the callers' inputs.  *)

MaxGatherers == 2   \* gatherers decorated in SpecSignup
MaxCopies == 1      \* deep copies leafed per behaviour

LINK == "link"
NAME == "name"
NUMBER == "number"
PART == "part"

FocusA == CHOOSE f \in focus({"a"}, {"T1"}) : TRUE
FocusB == CHOOSE f \in focus({"b"}, {"T2"}) : TRUE
FocusC == CHOOSE f \in focus({"c"}, {"T3"}) : TRUE
FocusD == CHOOSE f \in focus({"d"}, {"T4"}) : TRUE
FocusE == CHOOSE f \in focus({"e"}, {"T4"}) : TRUE
FocusF == CHOOSE f \in focus({"f"}, {"T4"}) : TRUE
FocusG == CHOOSE f \in focus({"g"}, {"T4"}) : TRUE
FocusH == CHOOSE f \in focus({"h"}, {"T4"}) : TRUE
FocusJ == CHOOSE f \in focus({"j"}, {"T4"}) : TRUE

Gatherers == {"gather_link", "gather_name", "gather_typed", "gather_part"}

(* the predicate_iris and focustype_iris each is decorated with            *)
Declarations ==
    [g \in Gatherers |->
        CASE g = "gather_link" -> [predicate_iris |-> {LINK}, focustype_iris |-> {}]
          [] g = "gather_name" -> [predicate_iris |-> {NAME}, focustype_iris |-> {}]
          [] g = "gather_typed" -> [predicate_iris |-> {}, focustype_iris |-> {"T1"}]
          [] g = "gather_part" -> [predicate_iris |-> {PART}, focustype_iris |-> {"T4"}]]

RECURSIVE Organize(_, _)
Organize(su, todo) ==
    IF todo = {} THEN su
    ELSE LET g == CHOOSE x \in todo : TRUE
         IN  Organize(add_gatherer(su, g, Declarations[g].predicate_iris,
                                   Declarations[g].focustype_iris),
                      todo \ {g})

(* a record and a container that name the entity a                         *)
RecordOfA == Bnode({<<LINK, Iri("a")>>})
SeqOfB == Bnode({<<RDF_type, Iri(RDF_Seq)>>, <<RDF__1, Iri("b")>>})

(* every shape of tuple a gatherer may yield, well-formed or not           *)
MessyYields ==
    { <<Iri(NAME), Lit("hello")>>,
      <<Iri(NAME), None>>,
      <<None, Lit("hello")>>,
      <<None, Iri(NAME), Lit("hello")>>,
      <<Iri("b"), None, Lit("hello")>>,
      <<Iri("b"), Iri(NAME), None>>,
      <<Iri("b"), Iri(NAME), Lit("hello")>>,
      <<FocusPart(FocusA), Iri(NAME), Lit("hello")>>,
      << >>,
      <<Iri(NAME)>>,
      <<None>>,
      <<Iri("b"), Iri(NAME), Lit("hello"), Lit("hello")>>,
      <<None, None, None, None>> }

(* a gatherer function that raises an error of its own where its next     *)
(* tuple would be                                                          *)
GathererError == "GathererError"
Raising == <<[k |-> "raising", v |-> GathererError]>>
IsRaising(item) == Len(item) = 1 /\ item[1].k = "raising"

(* what a gatherer function may yield for a focus: a set of outputs, each  *)
(* a sequence of tuples                                                    *)
gatherer_fn(g, f) ==
    CASE g = "gather_link" ->
            IF "a" \in f.iris
            THEN { << <<Iri(LINK), FocusPart(FocusB)>>, <<Iri(LINK), RecordOfA>> >> }
            ELSE IF "c" \in f.iris
            THEN { << <<Iri(LINK), Iri("x")>>, <<Iri(LINK), FocusPart(FocusB)>> >> }
            ELSE { << <<Iri(LINK), FocusPart(FocusA)>>, <<Iri(LINK), SeqOfB>> >> }
      [] g = "gather_name" ->
            IF "a" \in f.iris
            THEN { << <<Iri(NAME), Lit("hello")>>, <<Iri(RDF_type), Iri("T2")>> >> }
            ELSE { <<y>> : y \in MessyYields } \cup { << >> }
                    \cup { << <<Iri(NAME), Lit("hello")>>, <<Iri(NAME)>> >>,
                           << <<Iri(NAME), Lit("hello")>>, Raising >>,
                           << <<Iri(NAME), Lit("early")>>, <<Iri(NAME)>>,
                              <<Iri(NAME), Lit("late")>> >> }
      [] g = "gather_typed" ->
            { << <<Iri(NUMBER), Int_(Cardinality(f.iris))>> >> }
      [] g = "gather_part" ->
            IF "d" \in f.iris
            THEN { << <<Iri(PART), FocusPart(FocusE)>>, <<Iri(PART), Iri("y")>> >> }
            ELSE IF "g" \in f.iris
            THEN { << <<Iri(PART), FocusPart(FocusH)>>, <<Iri(PART), FocusPart(FocusF)>> >> }
            ELSE IF "h" \in f.iris
            THEN { << <<Iri(PART), Iri("z")>> >> }
            ELSE IF "f" \in f.iris
            THEN { << <<Iri("h"), Iri(RDF_type), Iri("T5")>> >> }
            ELSE IF "j" \in f.iris
            THEN { << <<Iri(PART), Iri("kk")>>,
                      <<Iri("kk"), Iri(RDF_type), Iri("T4")>>,
                      <<Iri("kk"), Iri(OWL_sameAs), Iri("k")>> >> }
            ELSE IF "kk" \in f.iris
            THEN { << <<Iri(PART), Lit("found")>> >> }
            ELSE { << <<Iri(PART), Iri("z")>> >>,
                   << <<FocusPart(FocusD), Iri(PART), Iri("z")>> >>,
                   << <<FocusPart(FocusD), Iri(PART), FocusPart(FocusE)>> >> }

Str(s) == [k |-> "str", v |-> s]
Dict(d) == [k |-> "dict", v |-> d]
List(l) == [k |-> "list", v |-> l]
NonePathset == [k |-> "none", v |-> ""]

MessyPathsets ==
    { Str(LINK),
      List(<<Str(NAME), Str(NAME), Str(NAME)>>),
      Dict(LINK :> Str(NAME)),
      Dict(LINK :> Dict(LINK :> Dict(LINK :> Str(LINK)))),
      Str(RDF_type),
      Str(NUMBER),
      NonePathset }

FocusArgs ==
    {FocusPart(FocusA), FocusPart(FocusB), Str("a")}

(* the inputs of SpecLeaf                                                  *)
LeafPathsets ==
    { Str(LINK),
      Dict(LINK :> Dict(LINK :> Str(LINK))) }

LeafFocusArgs == {FocusPart(FocusA)}

----------------------------------------------------------------------------
(* gather.py: Gathering.  The frames of the call stack:                    *)
(*   gather_by_pathset  in phase "gather" (the loop of                     *)
(*       __gather_predicate_iris over the gatherers, `gen` being the rest  *)
(*       of the running gatherer's output), then "preds" (the loop over    *)
(*       pathset.items()) and "objs" (the loop over peek(_pred));          *)
(*   container, bnode   the two loops of __gather_thru_object.             *)

NothingMade == [op |-> "none"]

(* the one Gathering the caller starts with: `current` is the Gathering    *)
(* the caller is using, cache_of the _GatherCache object of each, parked   *)
(* the value of every cache object but the current one's, whose value is   *)
(* in dicts, gathers_done and focus_set                                    *)
OneGathering == [current |-> 1, cache_of |-> <<1>>, parked |-> <<EmptyCache>>]

NoCrawler ==
    [status |-> "none", error |-> "", kind |-> "", graph |-> << >>,
     items_to_visit |-> << >>, items_visited |-> {}, items_visiting |-> {},
     frames |-> << >>, visits |-> << >>]

NoAllAbout ==
    [status |-> "none", error |-> "", phase |-> "", predicate_iris |-> {},
     focus_visited |-> {}, focus_to_visit |-> {}, asked |-> << >>]

NoCall ==
    [status |-> "none", messy |-> NonePathset, focus_arg |-> None,
     tidy |-> EmptyDict, focus |-> None, error |-> "", result |-> {},
     repeat |-> FALSE, changed |-> FALSE, invoked |-> 0,
     fresh |-> FALSE, yielded |-> {}]

Top == stack[Len(stack)]
Rest == SubSeq(stack, 1, Len(stack) - 1)

(* __gather_by_pathset looping over the objects of every predicate,        *)
(* whatever its nested pathset                                             *)
gather_by_pathset_every_pred(c, pathset, f) ==
    [c |-> add_focus(c, f),
     push |-> << [op |-> "gather_by_pathset", pathset |-> pathset, focus |-> f,
                  phase |-> "gather",
                  gatherers |-> get_gatherers(signup, f, DOMAIN pathset),
                  gatherer |-> "", gen |-> << >>,
                  preds |-> DOMAIN pathset,
                  pred |-> "", live |-> FALSE, size |-> 0, objs |-> {}] >>]

(* entering __gather_by_pathset: add_focus and get_gatherers               *)
gather_by_pathset(c, pathset, f) ==
    [c |-> add_focus(c, f),
     push |-> << [op |-> "gather_by_pathset", pathset |-> pathset, focus |-> f,
                  phase |-> "gather",
                  gatherers |-> get_gatherers(signup, f, DOMAIN pathset),
                  gatherer |-> "", gen |-> << >>,
                  preds |-> {p \in DOMAIN pathset : DOMAIN pathset[p] # {}},
                  pred |-> "", live |-> FALSE, size |-> 0, objs |-> {}] >>]

(* the blank-node loop keeping the whole pathset for the nested objects    *)
twople_pathset_kept(pathset, pred) == pathset

(* _next_pathset = pathset.get(_pred), None read as empty                  *)
twople_pathset(pathset, pred) == DictGet(pathset, pred, EmptyDict)

(* __gather_thru_object taking a container for a record like any other     *)
gather_thru_object_no_container(c, pathset, obj) ==
    IF obj.k = "iri"
    THEN {IF r.raised
          THEN [c |-> c, push |-> << >>]
          ELSE gather_by_pathset(r.c, pathset, r.focus) : r \in get_focus_by_iri(c, obj.v)}
    ELSE IF obj.k = "bnode"
    THEN {[c |-> c, push |-> << [op |-> "bnode", pathset |-> pathset,
                                 obj |-> obj, todo |-> obj.v] >>]}
    ELSE {[c |-> c, push |-> << >>]}

(* __gather_thru_object up to its first loop or recursive call             *)
gather_thru_object(c, pathset, obj) ==
    IF obj.k = "iri"
    THEN {IF r.raised
          THEN [c |-> c, push |-> << >>]
          ELSE gather_by_pathset(r.c, pathset, r.focus) : r \in get_focus_by_iri(c, obj.v)}
    ELSE IF obj.k = "bnode"
    THEN IF is_container(obj.v)
         THEN {[c |-> c, push |-> << [op |-> "container", pathset |-> pathset,
                                      obj |-> obj, todo |-> enumerate_container(obj.v)] >>]}
         ELSE {[c |-> c, push |-> << [op |-> "bnode", pathset |-> pathset,
                                      obj |-> obj, todo |-> obj.v] >>]}
    ELSE {[c |-> c, push |-> << >>]}

SetCache(c) ==
    /\ dicts' = [dicts EXCEPT ![DictOfCache] = c.td]
    /\ gathers_done' = c.gathers_done
    /\ focus_set' = c.focus_set

(* the ask goes on with the stack stk, or returns peek when stk is empty   *)
GoOn(c, stk, newcall) ==
    /\ SetCache(c)
    /\ stack' = stk
    /\ call' = LET c1 == [newcall EXCEPT !.changed = @ \/ (c # CacheNow)]
               IN  IF stk = << >>
                   THEN [c1 EXCEPT !.status = "returned",
                                   !.result = peek(c, c1.tidy, FocusPart(c1.focus))]
                   ELSE c1

(* an error that undoes what the cache has taken                           *)
Raise_rolled_back(c, error, newcall) ==
    /\ SetCache(EmptyCache)
    /\ stack' = << >>
    /\ call' = [newcall EXCEPT !.status = "raised", !.error = error,
                               !.changed = @ \/ (c # CacheNow)]

(* an error that takes the failed gather out of gathers_done               *)
Raise_unmarking(c, error, newcall) ==
    /\ SetCache(IF stack # << >> /\ Top.op = "gather_by_pathset"
                    /\ Top.phase = "gather" /\ Top.gatherer # ""
                THEN [c EXCEPT !.gathers_done = @ \ {<<Top.gatherer, FocusKey(Top.focus)>>}]
                ELSE c)
    /\ stack' = << >>
    /\ call' = [newcall EXCEPT !.status = "raised", !.error = error,
                               !.changed = @ \/ (c # CacheNow)]

(* an error leaves the loops of the ask: nothing catches it                *)
Raise(c, error, newcall) ==
    /\ SetCache(c)
    /\ stack' = << >>
    /\ call' = [newcall EXCEPT !.status = "raised", !.error = error,
                               !.changed = @ \/ (c # CacheNow)]

(* Gathering.ask up to the first step of __gather_by_pathset               *)
ask(messy, focus_arg) ==
    /\ call.status # "running"
    /\ \E r \in (IF focus_arg.k = "str"
                 THEN get_focus_by_iri(CacheNow, focus_arg.v)
                 ELSE {[raised |-> FALSE, c |-> CacheNow, focus |-> focus_arg.v]}) :
          \E newcall \in {[NoCall EXCEPT
                            !.status = "running", !.messy = messy,
                            !.focus_arg = focus_arg,
                            !.tidy = tidy_pathset(messy), !.focus = r.focus,
                            !.repeat = (call.status = "returned" /\ call.messy = messy
                                        /\ call.focus_arg = focus_arg),
                            !.fresh = (CacheNow = EmptyCache)]} :
              IF r.raised
              THEN Raise(CacheNow, "GatherException", newcall)
              ELSE \E e \in {gather_by_pathset(r.c, newcall.tidy, r.focus)} :
                      GoOn(e.c, e.push, newcall)
    /\ UNCHANGED <<gatherings, crawler, made, signup, declared, lookup, invocations, leafed>>

(* an ask of the caller's own                                              *)
Ask(messy, focus_arg) ==
    /\ all_about.status # "running"
    /\ ask(messy, focus_arg)
    /\ UNCHANGED all_about

InGather ==
    /\ stack # << >>
    /\ Top.op = "gather_by_pathset"
    /\ Top.phase = "gather"

(* __maybe_gather: the next gatherer of the loop is called unless already  *)
(* gathered                                                                *)
MaybeGather ==
    /\ InGather
    /\ Top.gatherer = ""
    /\ \E g \in Top.gatherers :
          LET ag == already_gathered(CacheNow, g, Top.focus)
          IN  IF ag.is_done
              THEN /\ GoOn(CacheNow, Rest \o <<[Top EXCEPT !.gatherers = @ \ {g}]>>, call)
                   /\ UNCHANGED invocations
              ELSE \E out \in gatherer_fn(g, Top.focus) :
                   /\ GoOn(ag.c,
                           Rest \o <<[Top EXCEPT !.gatherers = @ \ {g},
                                                 !.gatherer = IF out = << >> THEN "" ELSE g,
                                                 !.gen = out]>>,
                           [call EXCEPT !.invoked = @ + 1])
                   /\ invocations' =
                        LET key == <<g, FocusKey(Top.focus)>>
                        IN  [k \in (DOMAIN invocations) \cup {key} |->
                                DictGet(invocations, k, 0) + IF k = key THEN 1 ELSE 0]
    /\ UNCHANGED <<gatherings, crawler, all_about, made, signup, declared, lookup, leafed>>

(* one turn of `for triple in gatherer(focus, ...): cache.add_triple`      *)
Consume ==
    /\ InGather
    /\ Top.gatherer # ""
    /\ LET item == triple_gatherer_item(Top.focus, Head(Top.gen))
           rest == Tail(Top.gen)
           frame == [Top EXCEPT !.gen = rest,
                                !.gatherer = IF rest = << >> THEN "" ELSE @]
       IN  CASE IsRaising(Head(Top.gen)) -> Raise(CacheNow, Head(Top.gen)[1].v, call)
             [] item.k = "raise" -> Raise(CacheNow, "ValueError", call)
             [] item.k = "skip" -> GoOn(CacheNow, Rest \o <<frame>>, call)
             [] item.k = "yield" ->
                    GoOn(add_triple(CacheNow, item.triple), Rest \o <<frame>>,
                         [call EXCEPT !.yielded =
                            IF call.fresh THEN @ \cup {item.triple} ELSE @])
    /\ UNCHANGED <<gatherings, crawler, all_about, made, signup, declared, lookup, invocations, leafed>>

(* the loop over pathset.items(): the next predicate with a nested pathset *)
(* starts the iteration of peek(_pred, focus=focus); none left, return     *)
NextPred ==
    /\ stack # << >>
    /\ Top.op = "gather_by_pathset"
    /\ \/ Top.phase = "preds"
       \/ Top.phase = "gather" /\ Top.gatherer = "" /\ Top.gatherers = {}
    /\ IF Top.preds = {}
       THEN GoOn(CacheNow, Rest, call)
       ELSE \E p \in Top.preds :
                LET twopledict == DictGet(dicts[DictOfCache], single_iri(Top.focus), EmptyDict)
                    object_set == DictGet(twopledict, p, {})
                IN  GoOn(CacheNow,
                         Rest \o <<[Top EXCEPT !.phase = "objs", !.preds = @ \ {p},
                                               !.pred = p,
                                               !.live = (p \in DOMAIN twopledict),
                                               !.size = Cardinality(object_set),
                                               !.objs = object_set]>>,
                         call)
    /\ UNCHANGED <<gatherings, crawler, all_about, made, signup, declared, lookup, invocations, leafed>>

(* the loop over the objects handing down the pathset it was given, not    *)
(* the one nested under the predicate                                      *)
NextObj_same_pathset ==
    /\ stack # << >>
    /\ Top.op = "gather_by_pathset"
    /\ Top.phase = "objs"
    /\ LET size_now == IF Top.live
                       THEN Cardinality(dicts[DictOfCache][single_iri(Top.focus)][Top.pred])
                       ELSE 0
       IN  IF size_now # Top.size
           THEN Raise(CacheNow, "RuntimeError", call)
           ELSE IF Top.objs = {}
           THEN GoOn(CacheNow, Rest \o <<[Top EXCEPT !.phase = "preds"]>>, call)
           ELSE \E obj \in Top.objs :
                \E t \in gather_thru_object(CacheNow, Top.pathset, obj) :
                    GoOn(t.c, Rest \o <<[Top EXCEPT !.objs = @ \ {obj}]>> \o t.push, call)
    /\ UNCHANGED <<gatherings, crawler, all_about, made, signup, declared, lookup, invocations, leafed>>

(* the next object of the iterated set; the set iterator raises            *)
(* RuntimeError once the set has changed size                              *)
NextObj ==
    /\ stack # << >>
    /\ Top.op = "gather_by_pathset"
    /\ Top.phase = "objs"
    /\ LET size_now == IF Top.live
                       THEN Cardinality(dicts[DictOfCache][single_iri(Top.focus)][Top.pred])
                       ELSE 0
       IN  IF size_now # Top.size
           THEN Raise(CacheNow, "RuntimeError", call)
           ELSE IF Top.objs = {}
           THEN GoOn(CacheNow, Rest \o <<[Top EXCEPT !.phase = "preds"]>>, call)
           ELSE \E obj \in Top.objs :
                \E t \in gather_thru_object(CacheNow, Top.pathset[Top.pred], obj) :
                    GoOn(t.c, Rest \o <<[Top EXCEPT !.objs = @ \ {obj}]>> \o t.push, call)
    /\ UNCHANGED <<gatherings, crawler, all_about, made, signup, declared, lookup, invocations, leafed>>

(* for _container_obj in container_objects(obj)                            *)
NextContainerObj ==
    /\ stack # << >>
    /\ Top.op = "container"
    /\ IF Top.todo = {}
       THEN GoOn(CacheNow, Rest, call)
       ELSE \E tw \in Top.todo :
            \E t \in gather_thru_object(CacheNow, Top.pathset, tw[2]) :
                GoOn(t.c, Rest \o <<[Top EXCEPT !.todo = @ \ {tw}]>> \o t.push, call)
    /\ UNCHANGED <<gatherings, crawler, all_about, made, signup, declared, lookup, invocations, leafed>>

(* for _pred, _obj in obj, with pathset.get(_pred)                         *)
NextTwople ==
    /\ stack # << >>
    /\ Top.op = "bnode"
    /\ IF Top.todo = {}
       THEN GoOn(CacheNow, Rest, call)
       ELSE \E tw \in Top.todo :
            LET next_pathset == twople_pathset(Top.pathset, tw[1])
                frame == [Top EXCEPT !.todo = @ \ {tw}]
            IN  IF DOMAIN next_pathset = {}
                THEN GoOn(CacheNow, Rest \o <<frame>>, call)
                ELSE \E t \in gather_thru_object(CacheNow, next_pathset, tw[2]) :
                        GoOn(t.c, Rest \o <<frame>> \o t.push, call)
    /\ UNCHANGED <<gatherings, crawler, all_about, made, signup, declared, lookup, invocations, leafed>>

(* Gathering.leaf_a_record: a deep copy is a new object, the proxy is a    *)
(* read-only wrapper of the cache's own tripledict                         *)
(* `taken` is the graph at the time of the call, kept for the claims       *)
leaf_a_record_never_copied(pls_copy) ==
    [dicts |-> dicts,
     record |-> [ref |-> DictOfCache, proxy |-> ~pls_copy, taken |-> dicts[DictOfCache]]]

leaf_a_record_always_copied(pls_copy) ==
    [dicts |-> dicts \o <<dicts[DictOfCache]>>,
     record |-> [ref |-> Len(dicts) + 1, proxy |-> ~pls_copy, taken |-> dicts[DictOfCache]]]

leaf_a_record(pls_copy) ==
    IF pls_copy
    THEN LET new == Len(dicts) + 1
         IN  [dicts |-> dicts \o <<dicts[DictOfCache]>>,
              record |-> [ref |-> new, proxy |-> FALSE, taken |-> dicts[DictOfCache]]]
    ELSE [dicts |-> dicts,
          record |-> [ref |-> DictOfCache, proxy |-> TRUE, taken |-> dicts[DictOfCache]]]

LeafARecord(pls_copy) ==
    /\ call.status # "running"
    /\ pls_copy => Cardinality({r \in leafed : ~r.proxy}) < MaxCopies
    /\ LET l == leaf_a_record(pls_copy)
       IN  /\ dicts' = l.dicts
           /\ leafed' = leafed \cup {l.record}
    /\ UNCHANGED <<gatherings, crawler, all_about, made, signup, declared, lookup, gathers_done, focus_set, stack, call,
                   invocations>>

(* what a leafed record shows when it is read                              *)
Shown(record) == dicts[record.ref]

(* the caller changes a record it was given: adds a triple or drops a      *)
(* subject.  The proxy rejects both (TypeError), so only copies change.    *)
MutateRecord(record) ==
    /\ call.status # "running"
    /\ record \in leafed
    /\ ~record.proxy
    /\ \/ dicts' = [dicts EXCEPT ![record.ref] = add_triple_to(@, "mine", NAME, Lit("hello"))]
       \/ \E s \in DOMAIN dicts[record.ref] :
            dicts' = [dicts EXCEPT ![record.ref] = [x \in (DOMAIN @) \ {s} |-> @[x]]]
    /\ UNCHANGED <<gatherings, crawler, all_about, made, signup, declared, lookup, gathers_done, focus_set, stack, call,
                   invocations, leafed>>

----------------------------------------------------------------------------
Init ==
    /\ signup = Organize(EmptySignup, Gatherers)
    /\ declared = Declarations
    /\ lookup = [focus |-> None, predicate_iris |-> {}, gatherers |-> {}]
    /\ dicts = <<EmptyDict>>
    /\ gathers_done = {}
    /\ focus_set = {}
    /\ stack = << >>
    /\ call = NoCall
    /\ invocations = EmptyDict
    /\ leafed = {}
    /\ made = NothingMade
    /\ all_about = NoAllAbout
    /\ crawler = NoCrawler
    /\ gatherings = OneGathering

Steps ==
    \/ MaybeGather
    \/ Consume
    \/ NextPred
    \/ NextObj
    \/ NextContainerObj
    \/ NextTwople

Next ==
    \/ \E messy \in MessyPathsets, focus_arg \in FocusArgs : Ask(messy, focus_arg)
    \/ Steps

Spec == Init /\ [][Next]_vars

(* asks about d and e, whose gatherer for e may yield a triple about d,    *)
(* and about j, whose part kk is also known as k                           *)
PartPathsets == {Str(PART), Dict(PART :> Str(PART))}
PartFocusArgs == {FocusPart(FocusD), FocusPart(FocusE), FocusPart(FocusJ)}

PartSteps ==
    \/ MaybeGather
    \/ Consume
    \/ NextPred
    \/ NextObj

NextPart ==
    \/ \E messy \in PartPathsets, focus_arg \in PartFocusArgs : Ask(messy, focus_arg)
    \/ PartSteps

SpecPart == Init /\ [][NextPart]_vars

(* a pull that was started keeps running                                   *)
SpecFair == Spec /\ WF_vars(Steps)

(* asks interleaved with leafing records and changing the copies           *)
NextLeaf ==
    \/ \E messy \in LeafPathsets, focus_arg \in LeafFocusArgs : Ask(messy, focus_arg)
    \/ Steps
    \/ \E pls_copy \in BOOLEAN : LeafARecord(pls_copy)
    \/ \E record \in leafed : MutateRecord(record)

SpecLeaf == Init /\ [][NextLeaf]_vars

----------------------------------------------------------------------------
(* Asks with Focus values the caller made on its own: of two identifiers   *)
(* of one length (in both iteration orders), with and without a            *)
(* gatherer_kwargset.                                                      *)

FocusInputs ==
    focus({"a", "c"}, {"T1"})
        \cup FocusObjects({"a", "c"}, {"T1"}, {<<"hello", "hi">>})

FocusPathsets ==
    { Str(NAME),
      Dict(LINK :> Dict(LINK :> Str(LINK))) }

NextFocus ==
    \/ \E messy \in FocusPathsets, f \in FocusInputs : Ask(messy, FocusPart(f))
    \/ Steps

SpecFocus == Init /\ [][NextFocus]_vars

----------------------------------------------------------------------------
(* Asks and peeks, with a focus whose link leads to an iri of no type.     *)

(* peek that adds the Focus it is given, as __gather_predicate_iris does   *)
Peek_adding_focus(messy, focus_arg) ==
    /\ call.status # "running"
    /\ LET c == IF focus_arg.k = "focus"
                THEN add_focus(CacheNow, focus_arg.v) ELSE CacheNow
       IN  /\ SetCache(c)
           /\ call' = [NoCall EXCEPT
                          !.status = "peeked", !.messy = messy, !.focus_arg = focus_arg,
                          !.tidy = tidy_pathset(messy),
                          !.result = peek(c, tidy_pathset(messy), focus_arg)]
    /\ UNCHANGED <<gatherings, crawler, all_about, made, signup, declared, lookup, stack, invocations, leafed>>

(* _GatherCache.peek, the returned generator read to its end               *)
Peek(messy, focus_arg) ==
    /\ call.status # "running"
    /\ call' = [NoCall EXCEPT
                    !.status = "peeked", !.messy = messy, !.focus_arg = focus_arg,
                    !.tidy = tidy_pathset(messy),
                    !.result = peek(CacheNow, tidy_pathset(messy), focus_arg)]
    /\ UNCHANGED <<gatherings, crawler, all_about, made, signup, declared, lookup, dicts, gathers_done, focus_set, stack,
                   invocations, leafed>>

PeekPathsets ==
    { Str(LINK),
      Dict(LINK :> Dict(LINK :> Dict(LINK :> Str(LINK)))) }

PeekAskArgs == {FocusPart(FocusC)}

PeekFocusArgs == {FocusPart(FocusC), FocusPart(FocusB), Str("c"), Str("x")}

NextPeek ==
    \/ \E messy \in PeekPathsets, focus_arg \in PeekAskArgs : Ask(messy, focus_arg)
    \/ Steps
    \/ \E messy \in PeekPathsets, focus_arg \in PeekFocusArgs : Peek(messy, focus_arg)

SpecPeek == Init /\ [][NextPeek]_vars

----------------------------------------------------------------------------
(* primitive_rdf.py: RdfGraph, on a tripledict of its own.                 *)

(* RdfGraph.add: setdefault, setdefault, add                               *)
graph_add(td, triple) == add_triple_to(td, triple[1], triple[2], triple[3])

(* remove that leaves the emptied object set and twopledict in place       *)
graph_remove_unpruned(td, triple) ==
    LET subj == triple[1]
        pred == triple[2]
        obj == triple[3]
    IN  IF subj \notin DOMAIN td \/ pred \notin DOMAIN td[subj]
           \/ obj \notin td[subj][pred]
        THEN [raised |-> TRUE, td |-> td]
        ELSE [raised |-> FALSE,
              td |-> [td EXCEPT ![subj] = [@ EXCEPT ![pred] = @ \ {obj}]]]

(* RdfGraph.remove: KeyError when the subject, the predicate or the object *)
(* is not there (nothing is changed before any of the three is looked up); *)
(* else the object is removed, then `del` of the predicate whose object    *)
(* set is empty, then `del` of the subject whose twopledict is empty       *)
graph_remove(td, triple) ==
    LET subj == triple[1]
        pred == triple[2]
        obj == triple[3]
    IN  IF subj \notin DOMAIN td \/ pred \notin DOMAIN td[subj]
           \/ obj \notin td[subj][pred]
        THEN [raised |-> TRUE, td |-> td]
        ELSE LET objectset == td[subj][pred] \ {obj}
                 twopledict == IF objectset = {}
                               THEN [p \in (DOMAIN td[subj]) \ {pred} |-> td[subj][p]]
                               ELSE [td[subj] EXCEPT ![pred] = objectset]
             IN  [raised |-> FALSE,
                  td |-> IF objectset = {} /\ DOMAIN twopledict = {}
                         THEN [s \in (DOMAIN td) \ {subj} |-> td[s]]
                         ELSE [td EXCEPT ![subj] = twopledict]]

(* RdfGraph.discard: remove, the KeyError swallowed                        *)
graph_discard(td, triple) == graph_remove(td, triple).td

GraphTriples ==
    {"a", "b"} \X {LINK, NAME} \X {Iri("a"), Lit("hello")}

GraphAdd(triple) ==
    /\ dicts' = [dicts EXCEPT ![DictOfCache] = graph_add(@, triple)]
    /\ call' = [NoCall EXCEPT !.status = "added"]
    /\ UNCHANGED <<gatherings, crawler, all_about, made, signup, declared, lookup, gathers_done, focus_set, stack,
                   invocations, leafed>>

GraphRemove(triple) ==
    /\ LET r == graph_remove(dicts[DictOfCache], triple)
       IN  /\ dicts' = [dicts EXCEPT ![DictOfCache] = r.td]
           /\ call' = IF r.raised
                      THEN [NoCall EXCEPT !.status = "raised", !.error = "KeyError"]
                      ELSE [NoCall EXCEPT !.status = "removed"]
    /\ UNCHANGED <<gatherings, crawler, all_about, made, signup, declared, lookup, gathers_done, focus_set, stack,
                   invocations, leafed>>

GraphDiscard(triple) ==
    /\ dicts' = [dicts EXCEPT ![DictOfCache] = graph_discard(@, triple)]
    /\ call' = [NoCall EXCEPT !.status = "discarded"]
    /\ UNCHANGED <<gatherings, crawler, all_about, made, signup, declared, lookup, gathers_done, focus_set, stack,
                   invocations, leafed>>

NextGraph ==
    \/ \E triple \in GraphTriples : GraphAdd(triple)
    \/ \E triple \in GraphTriples : GraphRemove(triple)
    \/ \E triple \in GraphTriples : GraphDiscard(triple)

SpecGraph == Init /\ [][NextGraph]_vars

----------------------------------------------------------------------------
(* Gathering.ask_all_about: the loop over the foci to visit, each turn     *)
(* being an ask of its own.                                                *)

(* a set of iris as the iterable of pathsets that ask is given             *)
RECURSIVE ListOf(_)
ListOf(iris) ==
    IF iris = {} THEN << >>
    ELSE LET iri == CHOOSE x \in iris : TRUE
         IN  <<Str(iri)>> \o ListOf(iris \ {iri})

(* `focus in focus_set` and `focus_set - other`, by value                  *)
FocusIn(f, foci) == \E x \in foci : FocusKey(x) = FocusKey(f)
FocusMinus(foci, other) == {f \in foci : ~FocusIn(f, other)}

(* set.update: elements equal to one already there are not added again     *)
RECURSIVE FocusUpdate(_, _)
FocusUpdate(foci, more) ==
    IF more = {} THEN foci
    ELSE LET f == CHOOSE x \in more : TRUE
         IN  FocusUpdate(IF FocusIn(f, foci) THEN foci ELSE foci \cup {f}, more \ {f})

AllAboutFocusArgs == {FocusPart(FocusA), FocusPart(FocusC), Str("b")}

(* ask_all_about up to its loop                                            *)
AskAllAbout(focus_arg) ==
    /\ call.status # "running"
    /\ all_about.status # "running"
    /\ \E r \in (IF focus_arg.k = "str"
                 THEN get_focus_by_iri(CacheNow, focus_arg.v)
                 ELSE {[raised |-> FALSE, c |-> CacheNow, focus |-> focus_arg.v]}) :
          /\ SetCache(r.c)
          /\ all_about' =
                IF r.raised
                THEN [NoAllAbout EXCEPT !.status = "raised", !.error = "GatherException"]
                ELSE [NoAllAbout EXCEPT !.status = "running", !.phase = "pop",
                                        !.predicate_iris = all_predicate_iris(signup),
                                        !.focus_to_visit = {r.focus}]
    /\ UNCHANGED <<gatherings, crawler, made, signup, declared, lookup, stack, call, invocations, leafed>>

(* one turn of `while _focus_to_visit`: pop a focus and ask about it       *)
(* unless it was visited; return when none is left                         *)
AllAboutPop ==
    /\ all_about.status = "running"
    /\ all_about.phase = "pop"
    /\ IF all_about.focus_to_visit = {}
       THEN /\ all_about' = [all_about EXCEPT !.status = "returned", !.phase = ""]
            /\ UNCHANGED <<gatherings, crawler, made, signup, declared, lookup, cachevars>>
       ELSE \E f \in all_about.focus_to_visit :
            IF FocusIn(f, all_about.focus_visited)
            THEN /\ all_about' = [all_about EXCEPT !.focus_to_visit = @ \ {f}]
                 /\ UNCHANGED <<gatherings, crawler, made, signup, declared, lookup, cachevars>>
            ELSE /\ all_about' =
                        [all_about EXCEPT
                            !.focus_to_visit = @ \ {f},
                            !.focus_visited = @ \cup {f},
                            !.phase = "asked",
                            !.asked = [k \in (DOMAIN @) \cup {FocusKey(f)} |->
                                        DictGet(@, k, 0) + IF k = FocusKey(f) THEN 1 ELSE 0]]
                 /\ ask(List(ListOf(all_about.predicate_iris)), FocusPart(f))

(* the loop never taking up the foci the asks added                        *)
AllAboutUpdate_nothing ==
    /\ all_about.status = "running"
    /\ all_about.phase = "asked"
    /\ call.status # "running"
    /\ all_about' =
            IF call.status = "raised"
            THEN [all_about EXCEPT !.status = "raised", !.error = call.error, !.phase = ""]
            ELSE [all_about EXCEPT !.phase = "pop"]
    /\ UNCHANGED <<gatherings, crawler, made, signup, declared, lookup, cachevars>>

(* the ask is over: its error ends the loop, else                          *)
(* _focus_to_visit.update(self.cache.focus_set - _focus_visited)           *)
AllAboutUpdate ==
    /\ all_about.status = "running"
    /\ all_about.phase = "asked"
    /\ call.status # "running"
    /\ all_about' =
            IF call.status = "raised"
            THEN [all_about EXCEPT !.status = "raised", !.error = call.error, !.phase = ""]
            ELSE [all_about EXCEPT
                    !.phase = "pop",
                    !.focus_to_visit =
                        FocusUpdate(@, FocusMinus(focus_set, all_about.focus_visited))]
    /\ UNCHANGED <<gatherings, crawler, made, signup, declared, lookup, cachevars>>

(* an ask of the caller's own before or after: it leaves foci in the focus *)
(* set that were asked for one predicate only                              *)
AllPathsets == {Str(LINK)}
AllFocusArgs == {FocusPart(FocusC)}

(* the asks of ask_all_about have no nested pathset: of the steps of an    *)
(* ask they take the gathering and the empty loop over the pathset         *)
AllSteps ==
    \/ MaybeGather
    \/ Consume
    \/ NextPred

NextAll ==
    \/ \E focus_arg \in AllAboutFocusArgs : AskAllAbout(focus_arg)
    \/ AllAboutPop
    \/ AllAboutUpdate
    \/ \E messy \in AllPathsets, focus_arg \in AllFocusArgs : Ask(messy, focus_arg)
    \/ AllSteps

SpecAll == Init /\ [][NextAll]_vars

(* the single thread of the caller goes on while it has a step to take     *)
SpecAllFair == SpecAll /\ WF_vars(AllAboutPop \/ AllAboutUpdate \/ AllSteps)

(* asks, ask_all_about and peeks of the caller, one after the other        *)
PeekBetween(messy, focus_arg) ==
    /\ all_about.status # "running"
    /\ Peek(messy, focus_arg)
    /\ UNCHANGED all_about

NextGrow ==
    \/ NextAll
    \/ \E messy \in AllPathsets, focus_arg \in AllAboutFocusArgs :
            PeekBetween(messy, focus_arg)

SpecGrow == Init /\ [][NextGrow]_vars

----------------------------------------------------------------------------
(* gather/basket_crawler.py: BasketCrawler, with the hooks of the html     *)
(* renderers (render/html_dl.py, html_ul.py) and of the json-ld renderer   *)
(* (render/jsonld.py).  The graph of a basket gives each item (an iri or a *)
(* blank node) its values under one property; the values of an item are    *)
(* visited in any order.                                                   *)

CrawlKinds == {"html", "jsonld"}
CrawlFocus == "a"
CrawlIris == {"a", "b"}
CrawlBnode == "_:n"
CrawlValues == {Iri("a"), Iri("b"), [k |-> "bnodeid", v |-> CrawlBnode]}

(* the items a and b have any of the values, the blank node a literal      *)
CrawlGraphs ==
    {[item \in CrawlIris \cup {CrawlBnode} |->
        IF item = CrawlBnode THEN {Lit("hello")} ELSE g[item]] :
            g \in [CrawlIris -> SUBSET CrawlValues]}

(* BasketCrawler.crawl up to its loop                                      *)
Crawl(kind, graph) ==
    /\ crawler.status # "running"
    /\ crawler' = [NoCrawler EXCEPT !.status = "running", !.kind = kind,
                                    !.graph = graph,
                                    !.items_to_visit = <<CrawlFocus>>,
                                    !.visits = [i \in DOMAIN graph |-> 0]]
    /\ UNCHANGED <<gatherings, all_about, made, signup, declared, lookup, cachevars>>

(* _has_visited_item                                                       *)
has_visited_item(cr, itemid) ==
    \E i \in DOMAIN cr.items_to_visit : cr.items_to_visit[i] = itemid

(* _visit_item up to its loops: __item_context raises BasketCrawlError for *)
(* an item that is being visited, else the item is visiting and visited    *)
visit_item(cr, itemid) ==
    IF itemid \in cr.items_visiting
    THEN [cr EXCEPT !.status = "raised", !.error = "BasketCrawlError",
                    !.frames = << >>, !.items_visiting = {}]
    ELSE [cr EXCEPT !.items_visiting = @ \cup {itemid},
                    !.items_visited = @ \cup {itemid},
                    !.visits[itemid] = @ + 1,
                    !.frames = Append(@, [itemid |-> itemid, todo |-> cr.graph[itemid]])]

(* one turn of `while self.__items_to_visit`                               *)
CrawlPop ==
    /\ crawler.status = "running"
    /\ crawler.frames = << >>
    /\ crawler' =
        IF crawler.items_to_visit = << >>
        THEN [crawler EXCEPT !.status = "returned"]
        ELSE LET itemid == Head(crawler.items_to_visit)
                 popped == [crawler EXCEPT !.items_to_visit = Tail(@)]
             IN  IF itemid \in crawler.items_visited
                 THEN popped
                 ELSE visit_item(popped, itemid)
    /\ UNCHANGED <<gatherings, all_about, made, signup, declared, lookup, cachevars>>

(* _visit_value of the next value of the item on top, or the end of its    *)
(* _visit_item.  html: a blank node is visited in place, an iri is added   *)
(* to the items to visit.  jsonld: a blank node is rendered in place, and  *)
(* so is an iri unless _has_visited_item(itemid).                          *)
CrawlVisitValue ==
    /\ crawler.status = "running"
    /\ crawler.frames # << >>
    /\ LET top == crawler.frames[Len(crawler.frames)]
           rest == SubSeq(crawler.frames, 1, Len(crawler.frames) - 1)
       IN  IF top.todo = {}
           THEN crawler' = [crawler EXCEPT !.frames = rest,
                                           !.items_visiting = @ \ {top.itemid}]
           ELSE \E value_obj \in top.todo :
                LET cr == [crawler EXCEPT
                            !.frames = Append(rest, [top EXCEPT !.todo = @ \ {value_obj}])]
                IN  crawler' =
                    CASE value_obj.k = "lit" -> cr
                      [] value_obj.k = "bnodeid" -> visit_item(cr, value_obj.v)
                      [] value_obj.k = "iri" /\ crawler.kind = "html" ->
                            [cr EXCEPT !.items_to_visit = Append(@, value_obj.v)]
                      [] value_obj.k = "iri" /\ crawler.kind = "jsonld" ->
                            IF has_visited_item(cr, top.itemid)
                            THEN cr
                            ELSE visit_item(cr, value_obj.v)
    /\ UNCHANGED <<gatherings, all_about, made, signup, declared, lookup, cachevars>>

NextCrawl ==
    \/ \E kind \in CrawlKinds, graph \in CrawlGraphs : Crawl(kind, graph)
    \/ CrawlPop
    \/ CrawlVisitValue

SpecCrawl == Init /\ [][NextCrawl]_vars

----------------------------------------------------------------------------
(* Records and containers the callers build and read back.                 *)

RecordObjects == {Iri("a"), Lit("hello"), Int_(1)}

(* every mapping of some of two predicates to sets of objects, the empty   *)
(* set included                                                            *)
RecordMappings ==
    UNION {[ps -> SUBSET RecordObjects] : ps \in SUBSET {LINK, NAME}}

(* short lists of every kind, and long ones with a repeated item           *)
ShortLists == UNION {[1..n -> RecordObjects] : n \in 0..3}
LongLists ==
    {[i \in 1..n |-> IF i % 3 = 0 THEN Iri("a") ELSE Int_(i)] : n \in 9..MaxItems}

(* twopledict_from_twopleset(blanknode(m))                                 *)
MakeRecord(m) ==
    /\ made' = [op |-> "blanknode", input |-> m, output |-> blanknode(m),
                back |-> twopledict_from_twopleset(blanknode(m))]
    /\ UNCHANGED <<gatherings, crawler, all_about, signup, declared, lookup, cachevars>>

(* list(sequence_objects_in_order(sequence(xs))); container_types is what  *)
(* the caller builds, a sequence or another container                      *)
MakeContainer(container_type, xs) ==
    /\ \E r \in {sequence_objects_in_order(container(container_type, xs))} :
          IF r.raised
          THEN made' = [op |-> "container", type |-> container_type, input |-> xs,
                        output |-> container(container_type, xs),
                        raised |-> TRUE, back |-> << >>]
          ELSE \E l \in r.lists :
                 made' = [op |-> "container", type |-> container_type, input |-> xs,
                          output |-> container(container_type, xs),
                          raised |-> FALSE, back |-> l]
    /\ UNCHANGED <<gatherings, crawler, all_about, signup, declared, lookup, cachevars>>

(* what an organizer may be given as gatherer_kwargnames (any iterable of  *)
(* names, or nothing) and what new_gathering may be given as               *)
(* gatherer_kwargs (a dict, or nothing)                                    *)
NameSet(names) == [k |-> "set", v |-> names]
NameList(names) == [k |-> "list", v |-> names]
Kwargnames == {None, NameSet({}), NameSet({"hello"}), NameList(<<"hello">>)}
Kwargs ==
    {None, Dict(<< >>), Dict("hello" :> "hi"), Dict("hello" :> "hi" @@ "bye" :> "hi")}

(* validate_gatherer_kwargnames, as the error it raises or "": keys() of   *)
(* None is an AttributeError; a frozenset equals a set of the same names   *)
(* and nothing else                                                        *)
validate_gatherer_kwargnames(gatherer_kwargnames, gatherer_kwargs) ==
    IF gatherer_kwargs.k = "none" THEN "AttributeError"
    ELSE LET kwargnames == DOMAIN gatherer_kwargs.v
         IN  IF gatherer_kwargnames.k = "set" /\ gatherer_kwargnames.v = kwargnames
             THEN ""
             ELSE "GatherException"

(* GatheringOrganizer(..., gatherer_kwargnames).new_gathering(kwargs)      *)
NewGathering(gatherer_kwargnames, gatherer_kwargs) ==
    /\ made' = [op |-> "new_gathering", gatherer_kwargnames |-> gatherer_kwargnames,
                gatherer_kwargs |-> gatherer_kwargs,
                error |-> validate_gatherer_kwargnames(gatherer_kwargnames, gatherer_kwargs)]
    /\ UNCHANGED <<gatherings, crawler, all_about, signup, declared, lookup, cachevars>>

NextMake ==
    \/ \E m \in RecordMappings : MakeRecord(m)
    \/ \E gatherer_kwargnames \in Kwargnames, gatherer_kwargs \in Kwargs :
            NewGathering(gatherer_kwargnames, gatherer_kwargs)
    \/ \E container_type \in {RDF_Seq, RDF_Bag}, xs \in ShortLists \cup LongLists :
            MakeContainer(container_type, xs)

SpecMake == Init /\ [][NextMake]_vars

----------------------------------------------------------------------------
(* Several gatherings of the one organizer, used in turn by the caller.    *)

MaxGatherings == 2  \* Gathering objects made per behaviour

(* Gathering.__init__ given the cache of the first Gathering               *)
new_cache_shared(gs) == gs.cache_of[1]

(* Gathering.__init__: self.cache = _GatherCache(), a new object           *)
new_cache(gs) == Len(gs.parked) + 1

(* organizer.new_gathering(): one more Gathering, with its cache           *)
OrganizerNewGathering ==
    /\ Len(gatherings.cache_of) < MaxGatherings
    /\ LET id == new_cache(gatherings)
       IN  gatherings' =
              [gatherings EXCEPT
                 !.cache_of = Append(@, id),
                 !.parked = IF id > Len(@) THEN Append(@, EmptyCache) ELSE @]
    /\ UNCHANGED <<crawler, all_about, made, signup, declared, lookup, cachevars>>

(* the caller turns to the Gathering g, between two asks                   *)
TurnTo(g) ==
    /\ call.status # "running"
    /\ all_about.status # "running"
    /\ g \in 1..Len(gatherings.cache_of)
    /\ g # gatherings.current
    /\ LET from == gatherings.cache_of[gatherings.current]
           to == gatherings.cache_of[g]
       IN  IF from = to
           THEN /\ gatherings' = [gatherings EXCEPT !.current = g]
                /\ UNCHANGED <<dicts, gathers_done, focus_set>>
           ELSE /\ gatherings' =
                      [gatherings EXCEPT
                         !.current = g,
                         !.parked = [@ EXCEPT ![from] = CacheNow, ![to] = EmptyCache]]
                /\ SetCache(gatherings.parked[to])
    /\ UNCHANGED <<crawler, all_about, made, signup, declared, lookup,
                   stack, call, invocations, leafed>>

(* the cache of the Gathering g                                            *)
CacheOf(g) ==
    IF gatherings.cache_of[g] = gatherings.cache_of[gatherings.current]
    THEN CacheNow
    ELSE gatherings.parked[gatherings.cache_of[g]]

TwoPathsets == {Str(LINK)}
TwoFocusArgs == {FocusPart(FocusA), FocusPart(FocusC)}

NextTwo ==
    \/ OrganizerNewGathering
    \/ \E g \in 1..MaxGatherings : TurnTo(g)
    \/ \E messy \in TwoPathsets, focus_arg \in TwoFocusArgs : Ask(messy, focus_arg)
    \/ AllSteps

SpecTwo == Init /\ [][NextTwo]_vars

(* every Gathering is asked the same once, about g, whose parts are h and  *)
(* f; the gatherers for g, h and f yield the same whenever they are called *)
OrderPathsets == {Dict(PART :> Str(PART))}
OrderFocusArgs == {FocusPart(FocusG)}

(* the first ask made with a Gathering                                     *)
FirstAsk(messy, focus_arg) ==
    /\ CacheNow = EmptyCache
    /\ Ask(messy, focus_arg)

NextOrder ==
    \/ OrganizerNewGathering
    \/ \E g \in 1..MaxGatherings : TurnTo(g)
    \/ \E messy \in OrderPathsets, focus_arg \in OrderFocusArgs : FirstAsk(messy, focus_arg)
    \/ PartSteps

SpecOrder == Init /\ [][NextOrder]_vars

----------------------------------------------------------------------------
(* tidy_pathset on its own: of a messy pathset, and of a tidy one again.   *)

MaxParallel == 3    \* pathsets in one iterable given to tidy_pathset

(* what a caller puts in an iterable of pathsets                           *)
TidyMembers ==
    { NonePathset, Str(""), Str(LINK), Str(NAME),
      Dict(LINK :> Str(NAME)),
      Dict(LINK :> Dict(NAME :> Str(LINK))),
      Dict(LINK :> NonePathset @@ NAME :> Str(NAME)),
      List(<< >>),
      List(<<Str(NAME), Dict(LINK :> Str(LINK))>>) }

TidyLists ==
    UNION {[1..n -> TidyMembers] : n \in 0..MaxParallel}

TidyInputs == TidyMembers \cup {List(l) : l \in TidyLists}

(* a tidy pathset given as a messy one: a dict of dicts                    *)
RECURSIVE AsMessy(_)
AsMessy(tidy) == Dict([p \in DOMAIN tidy |-> AsMessy(tidy[p])])

(* tidy_pathset(messy), the first call of a behaviour                      *)
Tidy(messy) ==
    /\ made = NothingMade
    /\ made' = [op |-> "tidy_pathset", again |-> FALSE, messy |-> messy,
                tidy |-> tidy_pathset(messy)]
    /\ UNCHANGED <<gatherings, crawler, all_about, signup, declared, lookup, cachevars>>

(* tidy_pathset of the pathset it returned                                 *)
TidyAgain ==
    /\ made.op = "tidy_pathset"
    /\ ~made.again
    /\ made' = [op |-> "tidy_pathset", again |-> TRUE, messy |-> AsMessy(made.tidy),
                tidy |-> tidy_pathset(AsMessy(made.tidy))]
    /\ UNCHANGED <<gatherings, crawler, all_about, signup, declared, lookup, cachevars>>

(* the graph that is queried: a and b linked to each other, with names     *)
QueryGraph ==
    ( "a" :> (LINK :> {Iri("b"), Lit("v")} @@ NAME :> {Lit("hello")})
   @@ "b" :> (LINK :> {Iri("a")} @@ NAME :> {Lit("salut")}) )

(* RdfGraph(QueryGraph).q(subj, ...) of two pathsets, each alone and both  *)
(* in one iterable                                                         *)
Query(subj, first, second) ==
    /\ made = NothingMade
    /\ made' = [op |-> "q", subj |-> subj, first |-> first, second |-> second,
                q_first |-> q(QueryGraph, subj, tidy_pathset(first)),
                q_second |-> q(QueryGraph, subj, tidy_pathset(second)),
                q_both |-> q(QueryGraph, subj, tidy_pathset(List(<<first, second>>)))]
    /\ UNCHANGED <<gatherings, crawler, all_about, signup, declared, lookup, cachevars>>

NextTidy ==
    \/ \E messy \in TidyInputs : Tidy(messy)
    \/ TidyAgain
    \/ \E subj \in {"a", "b"}, first \in TidyMembers, second \in TidyMembers :
            Query(subj, first, second)

SpecTidy == Init /\ [][NextTidy]_vars

----------------------------------------------------------------------------
(* The signup on its own: gatherers are decorated with any criteria and    *)
(* looked up for any focus and predicates.                                 *)

SignupPredicates == {LINK, NAME}
SignupTypes == {"T1", "T2"}
LookupPredicates == {LINK, NAME}
LookupFoci == UNION {focus({"a"}, ts) : ts \in SUBSET SignupTypes}

(* GatheringOrganizer.gatherer: the decorator wraps the function in a new  *)
(* triple gatherer and signs that up                                       *)
Decorate(predicate_iris, focustype_iris) ==
    /\ Cardinality(DOMAIN declared) < MaxGatherers
    /\ LET triple_gatherer == Cardinality(DOMAIN declared) + 1
       IN  /\ signup' = add_gatherer(signup, triple_gatherer, predicate_iris, focustype_iris)
           /\ declared' = [g \in (DOMAIN declared) \cup {triple_gatherer} |->
                            IF g = triple_gatherer
                            THEN [predicate_iris |-> predicate_iris,
                                  focustype_iris |-> focustype_iris]
                            ELSE declared[g]]
    /\ UNCHANGED lookup
    /\ UNCHANGED <<gatherings, crawler, all_about, made, cachevars>>

Lookup(f, predicate_iris) ==
    /\ lookup' = [focus |-> f, predicate_iris |-> predicate_iris,
                  gatherers |-> get_gatherers(signup, f, predicate_iris)]
    /\ UNCHANGED <<gatherings, crawler, all_about, made, signup, declared>>
    /\ UNCHANGED <<gatherings, crawler, all_about, made, cachevars>>

InitSignup ==
    /\ signup = EmptySignup
    /\ declared = EmptyDict
    /\ lookup = [focus |-> None, predicate_iris |-> {}, gatherers |-> {}]
    /\ dicts = <<EmptyDict>>
    /\ gathers_done = {}
    /\ focus_set = {}
    /\ stack = << >>
    /\ call = NoCall
    /\ invocations = EmptyDict
    /\ leafed = {}
    /\ made = NothingMade
    /\ all_about = NoAllAbout
    /\ crawler = NoCrawler
    /\ gatherings = OneGathering

NextSignup ==
    \/ \E ps \in SUBSET SignupPredicates, ts \in SUBSET SignupTypes : Decorate(ps, ts)
    \/ \E f \in LookupFoci, ps \in SUBSET LookupPredicates : Lookup(f, ps)

SpecSignup == InitSignup /\ [][NextSignup]_vars

----------------------------------------------------------------------------
(* Dispatch.                                                               *)

(* a criterion of a decoration is met by the iris of a query: it is empty  *)
(* (any) or shares an iri with them                                        *)
Meets(criterion, iris) == criterion = {} \/ criterion \cap iris # {}

(* C3: for every focus and every set of requested predicates,              *)
(* get_gatherers returns exactly the gatherers whose predicate criterion   *)
(* meets the requested predicates and whose type criterion meets the       *)
(* types of the focus: the intersection of the two per-axis unions.        *)
C3_IntersectionDispatch ==
    \A f \in LookupFoci, ps \in SUBSET LookupPredicates :
        get_gatherers(signup, f, ps) =
            {g \in DOMAIN declared :
                /\ Meets(declared[g].predicate_iris, ps)
                /\ Meets(declared[g].focustype_iris, f.type_iris)}

(* a gatherer decorated with one predicate and both types was returned by  *)
(* one lookup and left out by another that requested its predicate        *)
C3_Witness ==
    /\ lookup.focus # None
    /\ \E g \in DOMAIN declared :
        /\ Cardinality(declared[g].predicate_iris) = 1
        /\ declared[g].focustype_iris = SignupTypes
        /\ g \in lookup.gatherers
        /\ declared[g].predicate_iris \subseteq lookup.predicate_iris
    /\ \E g \in DOMAIN declared :
        /\ declared[g].predicate_iris \cap lookup.predicate_iris # {}
        /\ g \notin lookup.gatherers

(* C4: a gatherer decorated with no predicate and with types Ts is         *)
(* returned for a focus exactly when the focus has a type in Ts, whatever  *)
(* predicates are requested, none included.                                *)
C4_WildcardDispatch ==
    \A g \in DOMAIN declared :
        (declared[g].predicate_iris = {} /\ declared[g].focustype_iris # {}) =>
            \A f \in LookupFoci, ps \in SUBSET LookupPredicates :
                (g \in get_gatherers(signup, f, ps))
                    <=> (f.type_iris \cap declared[g].focustype_iris # {})

(* a lookup with no requested predicate returned a gatherer that has a     *)
(* type criterion and no predicate criterion                               *)
C4_Witness ==
    /\ lookup.focus # None
    /\ lookup.predicate_iris = {}
    /\ \E g \in lookup.gatherers :
        /\ declared[g].predicate_iris = {}
        /\ declared[g].focustype_iris = {"T1"}
        /\ "T1" \in lookup.focus.type_iris

----------------------------------------------------------------------------
(* Memoization.                                                            *)

(* C1: every (gatherer, Focus) pair is invoked at most once, whatever asks *)
(* were made; a pair whose gatherer yielded nothing is memoized too.       *)
C1_InvokedAtMostOnce ==
    \A key \in DOMAIN invocations : invocations[key] <= 1

(* ask([name, name, name], b) was made twice and returned; gather_name was *)
(* invoked once for b and left nothing about b in the graph                *)
C1_Witness ==
    /\ call.status = "returned"
    /\ call.repeat
    /\ call.messy = List(<<Str(NAME), Str(NAME), Str(NAME)>>)
    /\ call.focus_arg = FocusPart(FocusB)
    /\ <<"gather_name", FocusKey(FocusB)>> \in gathers_done
    /\ invocations[<<"gather_name", FocusKey(FocusB)>>] = 1
    /\ q(dicts[DictOfCache], "b", tidy_pathset(Str(NAME))) = {}

(* C2: an ask for a Focus that repeats the ask before it, both having      *)
(* returned, changes neither the graph, the memo nor the focus set, and    *)
(* invokes no gatherer.                                                    *)
C2_PullIdempotent ==
    (call.status = "returned" /\ call.repeat /\ call.focus_arg.k = "focus") =>
        (~call.changed /\ call.invoked = 0)

----------------------------------------------------------------------------
(* Fact tidying.                                                           *)

(* the running gatherer's next tuple is about to be consumed               *)
Consuming == InGather /\ Top.gatherer # "" /\ ~IsRaising(Head(Top.gen))

Unwrapped(part) ==
    IF part.k = "focus" THEN Iri(single_iri(part.v)) ELSE part

HasNone(tuple) == \E i \in 1..Len(tuple) : tuple[i] = None

(* C5: consuming a yielded twople (P, obj) with no None adds exactly the   *)
(* triple (single_iri of the focus, P, obj), with a Focus obj replaced by  *)
(* its single_iri and its identity triples added beside; consuming a       *)
(* twople or triple with a None in any position adds no triple and raises  *)
(* nothing.                                                                *)
C5_FactTidying ==
    [][Consuming =>
        LET tuple == Head(Top.gen)
            before == iter_tripleset(dicts[DictOfCache])
            after == iter_tripleset(dicts'[DictOfCache])
        IN  /\ (Len(tuple) = 2 /\ ~HasNone(tuple)) =>
                    /\ after = before
                            \cup {<<single_iri(Top.focus), tuple[1].v, Unwrapped(tuple[2])>>}
                            \cup (IF tuple[2].k = "focus"
                                  THEN as_rdf_tripleset(tuple[2].v) ELSE {})
                    /\ call'.status # "raised"
            /\ (Len(tuple) \in {2, 3} /\ HasNone(tuple)) =>
                    /\ after = before
                    /\ focus_set' = focus_set
                    /\ call'.status # "raised"]_vars

(* gather_name, running for the focus b, is about to yield a triple with a *)
(* None subject                                                            *)
C5_Witness ==
    /\ Consuming
    /\ Top.gatherer = "gather_name"
    /\ Top.focus = FocusB
    /\ Head(Top.gen) = <<None, Iri(NAME), Lit("hello")>>

(* C6: consuming a yielded tuple whose length is neither 2 nor 3 makes the *)
(* ask fail with ValueError, whatever the tuple holds.                     *)
C6_BadLengthRaises ==
    [][(Consuming /\ Len(Head(Top.gen)) \notin {2, 3}) =>
        /\ call'.status = "raised"
        /\ call'.error = "ValueError"
        /\ stack' = << >>]_vars

(* an ask has failed with ValueError                                       *)
C6_Witness ==
    /\ call.status = "raised"
    /\ call.error = "ValueError"
    /\ <<"gather_name", FocusKey(FocusB)>> \in gathers_done

----------------------------------------------------------------------------
(* Records on the way of a pull.                                           *)

RECURSIVE PathsetDepth(_)
PathsetDepth(pathset) ==
    IF DOMAIN pathset = {} THEN 0
    ELSE 1 + CHOOSE d \in {PathsetDepth(pathset[p]) : p \in DOMAIN pathset} :
                \A p \in DOMAIN pathset : PathsetDepth(pathset[p]) <= d

(* a plain record is being expanded inside its own expansion               *)
RecordReentered ==
    \E i, j \in 1..Len(stack) :
        /\ i < j
        /\ stack[i].op = "bnode"
        /\ stack[j].op = "bnode"
        /\ stack[i].obj = stack[j].obj

----------------------------------------------------------------------------
(* Leafed records.                                                         *)

(* C8: no step changes both a deep copy and the cache's graph: the steps   *)
(* of an ask leave every copy as it is, and a change the caller makes to a *)
(* copy leaves the cache's graph as it is.                                 *)
C8_SnapshotIsolation ==
    [][\A record \in leafed :
        ~record.proxy =>
            /\ (dicts'[DictOfCache] # dicts[DictOfCache]) =>
                    dicts'[record.ref] = dicts[record.ref]
            /\ (dicts'[record.ref] # dicts[record.ref]) =>
                    dicts'[DictOfCache] = dicts[DictOfCache]]_vars

(* a copy taken of a graph with triples still shows that graph, while the  *)
(* cache's graph has grown since                                           *)
C8_Witness ==
    \E record \in leafed :
        /\ ~record.proxy
        /\ record.taken # EmptyDict
        /\ Shown(record) = record.taken
        /\ dicts[DictOfCache] # record.taken

(* C9 as claimed: a read-only view shows the graph of the time of the      *)
(* call, whatever was asked since.                                         *)
C9_ViewIsFrozen ==
    \A record \in leafed : record.proxy => Shown(record) = record.taken

(* C9 as amended: a read-only view is live, it shows the cache's graph as  *)
(* it is now.                                                              *)
C9_ViewIsLive ==
    \A record \in leafed : record.proxy => Shown(record) = dicts[DictOfCache]

(* a view taken earlier shows triples that were inserted since             *)
C9_Witness ==
    \E record \in leafed :
        /\ record.proxy
        /\ Shown(record) # record.taken
        /\ iter_tripleset(record.taken) \subseteq iter_tripleset(Shown(record))

----------------------------------------------------------------------------
(* ask = pull, then peek.                                                  *)

(* the first ask of a fresh cache, for one predicate and a Focus, is over  *)
FirstAskReturned ==
    /\ call.status = "returned"
    /\ call.fresh
    /\ call.messy.k = "str"
    /\ call.focus_arg.k = "focus"

(* the objects the invoked gatherers yielded under the asked predicate     *)
(* about the asked focus                                                   *)
YieldedAboutFocus ==
    {Unwrapped(t[3]) : t \in {x \in call.yielded :
        /\ Unwrapped(x[1]) = Iri(single_iri(call.focus))
        /\ x[2] = Iri(call.messy.v)}}

(* the identity facts of the cache's foci under the asked predicate about  *)
(* the asked focus                                                         *)
IdentityAboutFocus ==
    {t[3] : t \in {x \in UNION {as_rdf_tripleset(f) : f \in focus_set} :
        /\ x[1] = single_iri(call.focus)
        /\ x[2] = call.messy.v}}

(* C10 as claimed: the first ask returns exactly the objects the gatherers *)
(* yielded under the predicate about the focus (nothing, when no gatherer  *)
(* provides the predicate).                                                *)
C10_AskReturnsYielded ==
    FirstAskReturned => call.result = YieldedAboutFocus

(* C10 as amended: it returns those objects together with the identity     *)
(* facts of the cache's foci, which are there under rdf:type and           *)
(* owl:sameAs only.                                                        *)
C10_AskReturnsYieldedAndIdentity ==
    FirstAskReturned =>
        /\ call.result = YieldedAboutFocus \cup IdentityAboutFocus
        /\ call.messy.v \notin {RDF_type, OWL_sameAs} => call.result = YieldedAboutFocus

(* the first ask, for link about a, returned what gather_link yielded      *)
C10_Witness ==
    /\ FirstAskReturned
    /\ call.messy = Str(LINK)
    /\ call.focus = FocusA
    /\ call.result = {Iri("b"), RecordOfA}

----------------------------------------------------------------------------
(* One gather per entity.                                                  *)

(* C12: a gatherer is invoked at most once per entity: no two memo keys of *)
(* one gatherer that was invoked are Focus values of the same identifiers, *)
(* whether the caller made the Focus or get_focus_by_iri rebuilt it.       *)
C12_OncePerEntity ==
    \A k1, k2 \in DOMAIN invocations :
        (k1[1] = k2[1] /\ k1[2].iris = k2[2].iris) => k1 = k2

----------------------------------------------------------------------------
(* Focus values.                                                           *)

(* the Focus values the program holds                                      *)
FociHeld ==
    focus_set \cup (IF call.status = "none" THEN {} ELSE {call.focus})

SameSets(k, f) == k.iris = f.iris /\ k.type_iris = f.type_iris

(* the loop of __gather_predicate_iris is about to take its next gatherer  *)
Taking ==
    /\ InGather
    /\ Top.gatherer = ""
    /\ Top.gatherers # {}

(* the gatherer that the step takes                                        *)
Taken == CHOOSE g \in Top.gatherers : g \notin stack'[Len(stack)].gatherers

(* C11 as claimed: Focus values of equal identifier sets and equal type    *)
(* sets are one memo key, whatever else they carry: no gatherer was        *)
(* invoked under two keys of equal identifier sets and type sets.          *)
C11_KeyIsIrisAndTypes ==
    \A k1, k2 \in DOMAIN invocations :
        (k1[1] = k2[1] /\ SameSets(k1[2], k2[2])) => k1 = k2

(* C11 as amended: a gatherer taken for a focus is left uninvoked if and   *)
(* only if it was gathered before for a Focus of equal identifier set,     *)
(* equal type set and equal gatherer_kwargset, in whatever order the sets  *)
(* of the two iterate.                                                     *)
C11_KeyIsIrisTypesAndKwargset ==
    [][Taking =>
        ((invocations' = invocations) <=>
            \E k \in gathers_done :
                /\ k[1] = Taken
                /\ SameSets(k[2], Top.focus)
                /\ k[2].gatherer_kwargset = Top.focus.gatherer_kwargset)]_vars

(* an ask returned without invoking anything, for a Focus equal to one of  *)
(* the focus set that iterates its identifiers in the other order, while   *)
(* gather_name was invoked for that Focus value and for the one that       *)
(* differs by its gatherer_kwargset only                                   *)
C11_Witness ==
    /\ call.status = "returned"
    /\ call.invoked = 0
    /\ call.messy = Str(NAME)
    /\ \E f \in focus_set :
        /\ FocusKey(f) = FocusKey(call.focus)
        /\ f.iris_first # call.focus.iris_first
    /\ \E k1, k2 \in DOMAIN invocations :
        /\ k1[1] = "gather_name" /\ k2[1] = "gather_name"
        /\ SameSets(k1[2], k2[2])
        /\ k1[2].gatherer_kwargset # k2[2].gatherer_kwargset

(* C13: single_iri of every Focus held is the member choose_one_iri takes  *)
(* of its identifier set (the shortest, the first by alphabet among the    *)
(* shortest), so that Focus values of equal identifier sets agree on it.   *)
C13_SingleIriIsPure ==
    \A f \in FociHeld : single_iri(f) = choose_one_iri(f.iris)

(* what the identity facts of a Focus are to be                            *)
IdentityFacts(f) ==
    {t \in {single_iri(f)} \X {RDF_type, OWL_sameAs}
                \X {Iri(i) : i \in f.iris \cup f.type_iris} :
        \/ t[2] = RDF_type /\ t[3].v \in f.type_iris
        \/ t[2] = OWL_sameAs /\ t[3].v \in f.iris /\ t[3].v # t[1]}

(* C14: as_rdf_tripleset of every Focus held is exactly its types under    *)
(* rdf:type and its other identifiers under owl:sameAs, all about its      *)
(* single_iri, and these are the triples the focus set put in the graph.   *)
C14_IdentityFacts ==
    /\ \A f \in FociHeld : as_rdf_tripleset(f) = IdentityFacts(f)
    /\ \A f \in focus_set : IdentityFacts(f) \subseteq iter_tripleset(dicts[DictOfCache])

(* a Focus of two identifiers is in the focus set, its single_iri being    *)
(* the one or the other                                                    *)
C14_Witness ==
    \E f \in focus_set :
        /\ f.iris = {"a", "c"}
        /\ as_rdf_tripleset(f) =
                {<<"c", RDF_type, Iri("T1")>>, <<"c", OWL_sameAs, Iri("a")>>}

----------------------------------------------------------------------------
(* The graph.                                                              *)

(* C15: from the empty graph, after any adds, removes and discards, no     *)
(* subject of the graph has an empty twopledict and no predicate an empty  *)
(* object set.                                                             *)
C15_NothingEmpty ==
    LET td == dicts[DictOfCache]
    IN  \A s \in DOMAIN td :
            /\ DOMAIN td[s] # {}
            /\ \A p \in DOMAIN td[s] : td[s][p] # {}

(* remove took the last object of the graph: its predicate and its subject *)
(* went with it                                                            *)
C15_Witness ==
    /\ call.status = "removed"
    /\ dicts[DictOfCache] = EmptyDict

----------------------------------------------------------------------------
(* peek.                                                                   *)

(* C16: a peek, for any pathset and any focus (a Focus or an iri, in the   *)
(* graph or not), leaves the graph, the memo, the focus set and the        *)
(* invocations of the gatherers as they are.                               *)
C16_PeekIsPure ==
    [][call'.status = "peeked" =>
        /\ dicts' = dicts
        /\ gathers_done' = gathers_done
        /\ focus_set' = focus_set
        /\ invocations' = invocations
        /\ stack' = stack]_vars

(* a peek from an iri the graph has no subject of came back empty, the     *)
(* graph holding triples                                                   *)
C16_Witness ==
    /\ call.status = "peeked"
    /\ call.focus_arg = Str("x")
    /\ "x" \notin DOMAIN dicts[DictOfCache]
    /\ call.result = {}
    /\ dicts[DictOfCache] # EmptyDict
    /\ focus_set # {}

----------------------------------------------------------------------------
(* Objects that are no focus.                                              *)

(* the loop over peek(_pred, focus=focus) is about to take its next object *)
Iterating ==
    /\ stack # << >>
    /\ Top.op = "gather_by_pathset"
    /\ Top.phase = "objs"
    /\ Top.objs # {}
    /\ Top.size = IF Top.live
                  THEN Cardinality(dicts[DictOfCache][single_iri(Top.focus)][Top.pred])
                  ELSE 0

(* an iri the graph records no type of                                     *)
Untyped(obj) ==
    /\ obj.k = "iri"
    /\ q(dicts[DictOfCache], obj.v, RDF_type :> EmptyDict) = {}

(* the object that the step takes                                          *)
TakenObj == CHOOSE obj \in Top.objs : obj \notin stack'[Len(stack)].objs

(* C18: the step of a pull that takes an object raises nothing, and when   *)
(* the object is an iri without a recorded type it changes neither the     *)
(* graph, the focus set nor the memo, invokes no gatherer, descends        *)
(* nowhere, and leaves the loop with the objects that remain.              *)
C18_UntypedIriSkipped ==
    [][(Iterating /\ stack' # stack) =>
        /\ call'.status # "raised"
        /\ Len(stack') >= Len(stack)
        /\ Untyped(TakenObj) =>
            /\ dicts' = dicts
            /\ focus_set' = focus_set
            /\ gathers_done' = gathers_done
            /\ invocations' = invocations
            /\ stack' = Rest \o <<[Top EXCEPT !.objs = @ \ {TakenObj}]>>]_vars

(* the loop over the links of c has taken the iri x, which has no type,    *)
(* and goes on with b; no Focus was made of x                              *)
C18_Witness ==
    /\ call.status = "running"
    /\ Len(stack) = 1
    /\ Top.focus = FocusC
    /\ Top.phase = "objs"
    /\ Iri("x") \in dicts[DictOfCache]["c"][LINK]
    /\ Top.objs = {Iri("b")}
    /\ Untyped(Iri("x"))
    /\ \A f \in focus_set : "x" \notin f.iris

----------------------------------------------------------------------------
(* pull and peek on the same way.                                          *)

(* the object and the pathset of a call that pull made on its way (every   *)
(* Focus here has one iri, the one it was looked up by)                    *)
FrameDescent(frame) ==
    IF frame.op = "gather_by_pathset"
    THEN <<Iri(single_iri(frame.focus)), frame.pathset>>
    ELSE <<frame.obj, frame.pathset>>

(* C17: every object pull has gone into below the asked focus, peek of the *)
(* asked pathset from the asked focus goes into as well, with the same     *)
(* nested pathset (the items of a container included).                     *)
C17_PeekGoesWherePullGoes ==
    \A i \in 2..Len(stack) :
        FrameDescent(stack[i]) \in
            iter_twopledict_descents(
                dicts[DictOfCache],
                DictGet(dicts[DictOfCache], single_iri(call.focus), EmptyDict),
                call.tidy)

(* C19: no ask fails with GatherException: an ask for an iri that has no   *)
(* recorded type raises nothing.                                           *)
C19_UntypedIriIsSoftMiss ==
    ~(call.status = "raised" /\ call.error = "GatherException")

(* C20: a decoration that names no predicate and no type is refused: no    *)
(* such gatherer is in any set of the signup, and no lookup returns one.   *)
C20_NoCriteriaRefused ==
    \A g \in DOMAIN declared :
        (declared[g].predicate_iris = {} /\ declared[g].focustype_iris = {}) =>
            /\ g \notin signup.for_any_predicate
            /\ g \notin signup.for_any_focustype
            /\ \A f \in LookupFoci, ps \in SUBSET LookupPredicates :
                    g \notin get_gatherers(signup, f, ps)

----------------------------------------------------------------------------
(* Errors of gatherers.                                                    *)

(* the triple the cache holds for a yielded triple                         *)
Held(t) == <<Unwrapped(t[1]).v, t[2].v, Unwrapped(t[3])>>

(* the running gatherer is about to fail: it raises, or its next tuple is  *)
(* of a wrong length                                                       *)
Failing ==
    /\ InGather
    /\ Top.gatherer # ""
    /\ (IsRaising(Head(Top.gen)) \/ Len(Head(Top.gen)) \notin {2, 3})

(* C21: the step at which a gatherer raises, or yields a tuple of a wrong  *)
(* length, ends the ask with that error (the gatherer's own, or            *)
(* ValueError) and leaves graph, memo and focus set as they were; every    *)
(* triple the gatherers of a first ask yielded before the error is in the  *)
(* graph after it.                                                         *)
C21_NoRollback ==
    [][Failing =>
        /\ call'.status = "raised"
        /\ call'.error = (IF IsRaising(Head(Top.gen)) THEN GathererError ELSE "ValueError")
        /\ stack' = << >>
        /\ dicts' = dicts
        /\ gathers_done' = gathers_done
        /\ focus_set' = focus_set
        /\ call.fresh =>
                \A t \in call.yielded : Held(t) \in iter_tripleset(dicts'[DictOfCache])]_vars

(* a first ask failed with the error of gather_name, running for b, after  *)
(* gather_link and gather_name itself had yielded: all they yielded is in  *)
(* the graph                                                               *)
C21_Witness ==
    /\ call.status = "raised"
    /\ call.error = GathererError
    /\ call.fresh
    /\ call.focus = FocusB
    /\ <<Iri("b"), Iri(NAME), Lit("hello")>> \in call.yielded
    /\ <<Iri("b"), Iri(LINK), SeqOfB>> \in call.yielded
    /\ {<<"b", NAME, Lit("hello")>>, <<"b", LINK, SeqOfB>>}
            \subseteq iter_tripleset(dicts[DictOfCache])

----------------------------------------------------------------------------
(* Round trips.                                                            *)

(* C22: the twopledict read back from the record built of a mapping is the *)
(* mapping without the predicates mapped to an empty set; it is the        *)
(* mapping itself when no set is empty.                                    *)
C22_RecordRoundTrip ==
    made.op = "blanknode" =>
        LET m == made.input
            kept == {p \in DOMAIN m : m[p] # {}}
        IN  /\ made.back = [p \in kept |-> m[p]]
            /\ kept = DOMAIN m => made.back = m

(* a mapping of two predicates, one to several objects, came back as it    *)
(* was                                                                     *)
C22_Witness ==
    /\ made.op = "blanknode"
    /\ DOMAIN made.input = {LINK, NAME}
    /\ Cardinality(made.input[LINK]) = 3
    /\ Cardinality(made.input[NAME]) = 1
    /\ made.back = made.input

(* C23: the objects in order of the sequence made of a list are the list:  *)
(* same length, same items at the same places, repeated items kept, for    *)
(* the empty list and for lists of more than nine items.                   *)
C23_SequenceRoundTrip ==
    (made.op = "container" /\ made.type = RDF_Seq) =>
        /\ ~made.raised
        /\ made.back = made.input

(* a list of more than nine items with a repeated item came back           *)
C23_Witness ==
    /\ made.op = "container"
    /\ made.type = RDF_Seq
    /\ Len(made.input) > 9
    /\ \E i, j \in 1..Len(made.input) : i # j /\ made.input[i] = made.input[j]
    /\ made.back = made.input

----------------------------------------------------------------------------
(* ask_all_about.                                                          *)

(* the gatherers an ask about f for every signed-up predicate looks up     *)
AllGatherers(f) == get_gatherers(signup, f, all_predicate_iris(signup))

(* C24: ask_all_about comes to an end; it asks about no Focus twice; when  *)
(* it returns, every Focus of the focus set was visited and every gatherer *)
(* looked up for it with all signed-up predicates is in the memo.          *)
C24_AllAboutAsksAll ==
    /\ [](\A k \in DOMAIN all_about.asked : all_about.asked[k] <= 1)
    /\ [][(all_about.status = "running" /\ all_about'.status = "returned") =>
            \A f \in focus_set' :
                /\ FocusIn(f, all_about'.focus_visited)
                /\ \A g \in AllGatherers(f) : <<g, FocusKey(f)>> \in gathers_done']_vars
    /\ (all_about.status = "running" ~> all_about.status # "running")

(* ask_all_about returned after asking about three foci, each found by the *)
(* ask before                                                              *)
C24_Witness ==
    /\ all_about.status = "returned"
    /\ Cardinality(all_about.focus_visited) = 3
    /\ Cardinality(focus_set) = 3
    /\ DOMAIN all_about.asked = {FocusKey(f) : f \in focus_set}

----------------------------------------------------------------------------
(* Gatherer kwargs.                                                        *)

(* the names an organizer declared, and those new_gathering was given      *)
DeclaredNames(gatherer_kwargnames) ==
    CASE gatherer_kwargnames.k = "none" -> {}
      [] gatherer_kwargnames.k = "set" -> gatherer_kwargnames.v
      [] gatherer_kwargnames.k = "list" ->
            {gatherer_kwargnames.v[i] : i \in DOMAIN gatherer_kwargnames.v}

ProvidedNames(gatherer_kwargs) ==
    IF gatherer_kwargs.k = "none" THEN {} ELSE DOMAIN gatherer_kwargs.v

(* C25: new_gathering fails exactly when the names it is given are not the *)
(* names the organizer declared, and then with GatherException; with none  *)
(* declared and none given, the defaults included, it succeeds.            *)
C25_KwargnamesValidated ==
    made.op = "new_gathering" =>
        /\ made.error \in {"", "GatherException"}
        /\ (made.error # "") <=>
                (ProvidedNames(made.gatherer_kwargs)
                    # DeclaredNames(made.gatherer_kwargnames))

----------------------------------------------------------------------------
(* The crawl of a basket.                                                  *)

(* C26: no crawl of any graph, cyclic or not, by any of the crawlers fails, *)
(* and no iri is visited more than once.                                   *)
C26_CrawlVisitsOnce ==
    /\ crawler.status # "raised"
    /\ \A iri \in CrawlIris \cap DOMAIN crawler.visits : crawler.visits[iri] <= 1

----------------------------------------------------------------------------
(* Containers in a pull.                                                   *)

(* the loop over a container met along the pathset is over                 *)
ContainerDone ==
    /\ stack # << >>
    /\ Top.op \in {"container", "bnode"}
    /\ is_container(Top.obj.v)
    /\ Top.todo = {}

(* the iri was gathered for the predicates of the pathset: some Focus of   *)
(* it has every gatherer looked up for those predicates in the memo        *)
GatheredFor(iri, pathset) ==
    \E f \in focus_set :
        /\ iri \in f.iris
        /\ \A g \in get_gatherers(signup, f, DOMAIN pathset) :
                <<g, FocusKey(f)>> \in gathers_done

(* C27: a container met with a nested pathset is passed through: its loop  *)
(* runs with the pathset it was met with, every frame it pushes has that   *)
(* pathset, and when the loop is over every item that is an iri with a     *)
(* type was gathered for the predicates of that pathset, as a direct       *)
(* object is.                                                              *)
C27_ContainerPassThrough ==
    [][/\ \A i \in 2..Len(stack) :
            (stack[i - 1].op \in {"container", "bnode"} /\ is_container(stack[i - 1].obj.v)) =>
                /\ stack[i].pathset = stack[i - 1].pathset
                /\ stack[i].op = "gather_by_pathset" =>
                        \E item \in container_objects(stack[i - 1].obj.v) :
                            item.k = "iri" /\ item.v \in stack[i].focus.iris
       /\ ContainerDone =>
            \A item \in container_objects(Top.obj.v) :
                (item.k = "iri" /\ ~Untyped(item)) => GatheredFor(item.v, Top.pathset)]_vars

(* the container that gather_link yielded about b was passed through with  *)
(* the pathset {name}: gather_name ran for its item b                      *)
C27_Witness ==
    /\ ContainerDone
    /\ Top.obj = SeqOfB
    /\ Top.pathset = (NAME :> EmptyDict)
    /\ call.fresh
    /\ call.focus = FocusB
    /\ call.tidy = (LINK :> (NAME :> EmptyDict))
    /\ <<"gather_name", FocusKey(FocusB)>> \in gathers_done

----------------------------------------------------------------------------
(* Predicates without a nested pathset.                                    *)

(* the first ask of a fresh cache, for predicates without nested pathsets  *)
FlatFirstAsk ==
    /\ call.status \in {"running", "returned"}
    /\ call.fresh
    /\ \A p \in DOMAIN call.tidy : DOMAIN call.tidy[p] = {}

(* the Focus values among the parts of the triples yielded to this ask     *)
YieldedFoci ==
    {t[1].v : t \in {x \in call.yielded : x[1].k = "focus"}}
        \cup {t[3].v : t \in {x \in call.yielded : x[3].k = "focus"}}

(* C28: a predicate mapped to an empty nested pathset is not descended     *)
(* into: the loop over objects runs only under predicates with a nested    *)
(* pathset, and no call below the first has an empty pathset; so an ask    *)
(* for predicates without nested pathsets invokes gatherers for the asked  *)
(* focus only and holds no Focus but the asked one and those yielded as    *)
(* such; and an ask returns all the objects the graph holds under such a   *)
(* predicate of the focus.                                                 *)
C28_EmptyIsTerminal ==
    /\ \A i \in 1..Len(stack) :
            (stack[i].op = "gather_by_pathset" /\ stack[i].phase = "objs") =>
                DOMAIN stack[i].pathset[stack[i].pred] # {}
    /\ \A i \in 2..Len(stack) : DOMAIN stack[i].pathset # {}
    /\ FlatFirstAsk =>
            /\ Len(stack) <= 1
            /\ \A key \in DOMAIN invocations : key[2] = FocusKey(call.focus)
            /\ \A f \in focus_set :
                    FocusKey(f) \in {FocusKey(x) : x \in {call.focus} \cup YieldedFoci}
    /\ call.status = "returned" =>
            \A p \in DOMAIN call.tidy :
                DOMAIN call.tidy[p] = {} =>
                    DictGet(DictGet(dicts[DictOfCache], single_iri(call.focus), EmptyDict),
                            p, {}) \subseteq call.result

(* the first ask, for link alone about a, returned b and the record:       *)
(* gatherers ran for a only, though b is an object of link with a type     *)
C28_Witness ==
    /\ FlatFirstAsk
    /\ call.status = "returned"
    /\ call.tidy = (LINK :> EmptyDict)
    /\ call.focus = FocusA
    /\ call.result = {Iri("b"), RecordOfA}
    /\ ~Untyped(Iri("b"))
    /\ DOMAIN invocations =
            {<<"gather_link", FocusKey(FocusA)>>, <<"gather_typed", FocusKey(FocusA)>>}

----------------------------------------------------------------------------
(* Gatherers run on demand.                                                *)

(* the (gatherer, Focus) pairs a step invokes or adds to gathers_done      *)
NewlyGathered ==
    {key \in DOMAIN invocations' : DictGet(invocations, key, 0) < invocations'[key]}
        \cup (gathers_done' \ gathers_done)

(* C29: a new cache has nothing in gathers_done and has invoked nothing;   *)
(* a step invokes or memoizes a gatherer for a focus only when             *)
(* get_gatherers returns it for that focus and the predicates of the       *)
(* pathset being gathered; and every pair of gathers_done has a gatherer   *)
(* decorated with no focustype or with a type of the pair's focus.         *)
C29_DemandDriven ==
    /\ (gathers_done = {} /\ invocations = EmptyDict)
    /\ [][\A key \in NewlyGathered :
            /\ InGather
            /\ key[2] = FocusKey(Top.focus)
            /\ key[1] \in get_gatherers(signup, Top.focus, DOMAIN Top.pathset)]_vars
    /\ [](\A key \in gathers_done :
            Meets(declared[key[1]].focustype_iris, key[2].type_iris))

(* gather_typed ran for a, gather_link ran for b found through a, and      *)
(* gather_typed, decorated for T1, did not run for b of type T2            *)
C29_Witness ==
    /\ call.status = "returned"
    /\ <<"gather_typed", FocusKey(FocusA)>> \in gathers_done
    /\ <<"gather_link", FocusKey(FocusB)>> \in gathers_done
    /\ <<"gather_typed", FocusKey(FocusB)>> \notin gathers_done
    /\ <<"gather_typed", FocusKey(FocusB)>> \notin DOMAIN invocations
    /\ invocations[<<"gather_link", FocusKey(FocusB)>>] = 1

----------------------------------------------------------------------------
(* The end of a pull.                                                      *)

(* the calls of __gather_by_pathset open below the first: one for each     *)
(* entity the pull is inside of                                            *)
EntityDepth ==
    Cardinality({i \in 2..Len(stack) : stack[i].op = "gather_by_pathset"})

(* C30: a pull that was started ends, by returning or raising, also when   *)
(* a yields b and b yields a; and the calls of __gather_by_pathset open    *)
(* below the first never outnumber the depth of the asked pathset.         *)
C30_PullTerminates ==
    /\ [](EntityDepth <= PathsetDepth(call.tidy))
    /\ (call.status = "running" ~> call.status \in {"returned", "raised"})

(* inside ask({link: {link: {link: link}}}, a): the pull is at b, reached  *)
(* through a, reached through b, reached through a                         *)
C30_Witness ==
    /\ call.status = "running"
    /\ PathsetDepth(call.tidy) = 4
    /\ EntityDepth = 3
    /\ stack[1].focus = FocusA
    /\ Top.op = "gather_by_pathset"
    /\ "b" \in Top.focus.iris
    /\ \E i, j \in 2..Len(stack) :
            /\ i < j
            /\ stack[i].op = "gather_by_pathset" /\ "b" \in stack[i].focus.iris
            /\ stack[j].op = "gather_by_pathset" /\ "a" \in stack[j].focus.iris

----------------------------------------------------------------------------
(* Tidy pathsets.                                                          *)

(* the predicate paths of a tidy pathset: every way down from the top      *)
RECURSIVE Paths(_)
Paths(tidy) ==
    UNION {{<<p>>} \cup {<<p>> \o x : x \in Paths(tidy[p])} : p \in DOMAIN tidy}

(* the predicate paths a messy pathset names                               *)
RECURSIVE MessyPaths(_)
MessyPaths(messy) ==
    CASE messy.k = "none" -> {}
      [] messy.k = "str" -> IF messy.v = "" THEN {} ELSE {<<messy.v>>}
      [] messy.k = "dict" ->
            UNION {{<<p>>} \cup {<<p>> \o x : x \in MessyPaths(messy.v[p])}
                   : p \in DOMAIN messy.v}
      [] messy.k = "list" -> UNION {MessyPaths(messy.v[i]) : i \in DOMAIN messy.v}

Members(l) == {l[i] : i \in DOMAIN l}

(* C31: the tidy pathset of a messy one has exactly the predicate paths    *)
(* the messy one names, those of at least one member for an iterable;      *)
(* iterables of the same members in any order and number have the same     *)
(* tidy pathset; nothing and the empty values give the empty pathset, a    *)
(* predicate alone gives itself over the empty pathset; and the tidy       *)
(* pathset of a tidy pathset is that pathset.                              *)
C31_TidyIsUnion ==
    made.op = "tidy_pathset" =>
        /\ Paths(made.tidy) = MessyPaths(made.messy)
        /\ made.messy.k = "list" =>
                /\ Paths(made.tidy) =
                        UNION {Paths(tidy_pathset(x)) : x \in Members(made.messy.v)}
                /\ \A l \in TidyLists :
                        Members(l) = Members(made.messy.v) =>
                            tidy_pathset(List(l)) = made.tidy
        /\ made.messy \in {NonePathset, Str(""), List(<< >>), Dict(<< >>)} =>
                made.tidy = EmptyDict
        /\ (made.messy.k = "str" /\ made.messy.v # "") =>
                made.tidy = (made.messy.v :> EmptyDict)
        /\ made.again => AsMessy(made.tidy) = made.messy

(* link, then link over name over link, then link again, gave one pathset  *)
(* with link over name over link; and that pathset was tidied again        *)
C31_Witness ==
    /\ made.op = "tidy_pathset"
    /\ made.again
    /\ made.tidy = (LINK :> (NAME :> (LINK :> EmptyDict)))
    /\ tidy_pathset(List(<<Str(LINK), Dict(LINK :> Dict(NAME :> Str(LINK))), Str(LINK)>>))
            = made.tidy

----------------------------------------------------------------------------
(* The focus set and the graph.                                            *)

(* an ask is starting: its focus is added by __gather_by_pathset           *)
AskStarting == call.status # "running" /\ call'.status = "running"

(* C32: the identity facts of every Focus of the focus set are in the      *)
(* graph, from the step that adds the Focus on; and add_focus of a Focus   *)
(* already in the focus set leaves the graph and the focus set as they     *)
(* are, as seen when an ask starts about such a Focus.                     *)
C32_FocusSetInvariant ==
    /\ [](\A f \in focus_set :
            /\ IdentityFacts(f) \subseteq iter_tripleset(dicts[DictOfCache])
            /\ add_focus(CacheNow, f) = CacheNow)
    /\ [][\A f \in focus_set' :
            ~InFocusSet(CacheNow, f) =>
                IdentityFacts(f) \subseteq iter_tripleset(dicts'[DictOfCache])]_vars
    /\ [][(AskStarting /\ InFocusSet(CacheNow, call'.focus)) =>
            (focus_set' = focus_set /\ dicts' = dicts)]_vars

(* a later ask about a, already in the focus set with b, has started and   *)
(* changed nothing; the type of a is in the graph                          *)
C32_Witness ==
    /\ call.status = "running"
    /\ ~call.fresh
    /\ ~call.changed
    /\ call.focus = FocusA
    /\ Len(stack) = 1 /\ Top.phase = "gather" /\ call.invoked = 0
    /\ {FocusKey(f) : f \in focus_set} = {FocusKey(FocusA), FocusKey(FocusB)}
    /\ <<"a", RDF_type, Iri("T1")>> \in iter_tripleset(dicts[DictOfCache])

----------------------------------------------------------------------------
(* Focus values yielded by gatherers.                                      *)

(* C33: no triple of the graph has a Focus as its object and every subject *)
(* is a string; consuming a yielded triple or twople with a Focus as       *)
(* subject or object puts that Focus in the focus set, its identity facts  *)
(* in the graph, and the triple in the graph with the single_iri of the    *)
(* Focus in its place.                                                     *)
C33_FocusUnwrapped ==
    /\ [](\A t \in iter_tripleset(dicts[DictOfCache]) :
            t[1] \in STRING /\ t[3].k # "focus")
    /\ [][(Consuming /\ triple_gatherer_item(Top.focus, Head(Top.gen)).k = "yield") =>
            LET triple == triple_gatherer_item(Top.focus, Head(Top.gen)).triple
                after == iter_tripleset(dicts'[DictOfCache])
            IN  /\ Held(triple) \in after
                /\ \A i \in {1, 3} :
                        triple[i].k = "focus" =>
                            \E x \in focus_set' :
                                /\ FocusKey(x) = FocusKey(triple[i].v)
                                /\ IdentityFacts(x) \subseteq after]_vars

(* in a first ask about b, gather_name yielded a triple with the Focus a   *)
(* as subject: a is in the focus set, its type and the triple about "a"    *)
(* are in the graph                                                        *)
C33_Witness ==
    /\ call.fresh
    /\ call.focus = FocusB
    /\ <<FocusPart(FocusA), Iri(NAME), Lit("hello")>> \in call.yielded
    /\ InFocusSet(CacheNow, FocusA)
    /\ {<<"a", RDF_type, Iri("T1")>>, <<"a", NAME, Lit("hello")>>}
            \subseteq iter_tripleset(dicts[DictOfCache])

----------------------------------------------------------------------------
(* Gatherings of one organizer.                                            *)

(* a step of an ask: it starts, or the pull goes on                        *)
AskStep == call.status = "running" \/ call'.status = "running"

(* C34: no step of an ask made with one Gathering changes the graph,       *)
(* gathers_done or focus_set of the cache of another Gathering of the      *)
(* same organizer; and no step changes the organizer's signup.             *)
C34_GatheringsIndependent ==
    /\ [][AskStep =>
            \A g \in 1..Len(gatherings.cache_of) :
                g # gatherings.current => CacheOf(g)' = CacheOf(g)]_vars
    /\ [][signup' = signup]_vars

(* the second Gathering has gathered link about a while the first, which   *)
(* gathered link about c, is as it was left                                *)
C34_Witness ==
    /\ Len(gatherings.cache_of) = 2
    /\ gatherings.current = 2
    /\ call.status = "returned"
    /\ <<"gather_link", FocusKey(FocusA)>> \in gathers_done
    /\ CacheOf(1).gathers_done = {<<"gather_link", FocusKey(FocusC)>>}
    /\ "a" \notin DOMAIN CacheOf(1).td
    /\ "c" \notin DOMAIN dicts[DictOfCache]

----------------------------------------------------------------------------
(* A gather that failed.                                                   *)

(* C35: the pair (gatherer, Focus) is in gathers_done while the gatherer's *)
(* output is consumed and stays there when consuming fails; a pair in      *)
(* gathers_done is not invoked again by any later step; and what the       *)
(* output held after the failing item is never in the graph.               *)
C35_FailedGatherStaysDone ==
    /\ [][Failing =>
            /\ <<Top.gatherer, FocusKey(Top.focus)>> \in gathers_done
            /\ <<Top.gatherer, FocusKey(Top.focus)>> \in gathers_done']_vars
    /\ [][\A key \in gathers_done :
            DictGet(invocations', key, 0) = DictGet(invocations, key, 0)]_vars
    /\ [](\A t \in iter_tripleset(dicts[DictOfCache]) :
            ~(t[3].k = "lit" /\ t[3].v = "late"))

(* gather_name failed for b after its first fact; a later ask for the name *)
(* of b returned that fact alone and invoked nothing                       *)
C35_Witness ==
    /\ call.status = "returned"
    /\ ~call.fresh
    /\ call.focus = FocusB
    /\ call.tidy = (NAME :> EmptyDict)
    /\ call.invoked = 0
    /\ call.result = {Lit("early")}
    /\ invocations[<<"gather_name", FocusKey(FocusB)>>] = 1

----------------------------------------------------------------------------
(* The set of objects a pull is iterating.                                 *)

(* the objects the graph holds under the subject and predicate of the loop *)
(* of the frame i                                                          *)
IteratedNow(i) ==
    DictGet(DictGet(dicts[DictOfCache], single_iri(stack[i].focus), EmptyDict),
            stack[i].pred, {})

(* C36: while a loop over the objects under (focus, predicate) is open, the *)
(* graph holds under that subject and predicate as many objects as when    *)
(* the loop began, and no ask fails with the RuntimeError of a set changed *)
(* during iteration.                                                       *)
C36_IteratedSetUntouched ==
    /\ \A i \in 1..Len(stack) :
            (stack[i].op = "gather_by_pathset" /\ stack[i].phase = "objs") =>
                Cardinality(IteratedNow(i)) = stack[i].size
    /\ call.error # "RuntimeError"

----------------------------------------------------------------------------
(* The order of the loops of a pull.                                       *)

(* the Gathering g has been asked and its ask is over                      *)
Asked(g) ==
    /\ CacheOf(g) # EmptyCache
    /\ gatherings.cache_of[g] = gatherings.cache_of[gatherings.current] =>
            call.status # "running"

(* C37: two gatherings asked the same about the same focus, with gatherers *)
(* that yield the same whenever called, end with the same graph, the same  *)
(* gathers_done and the same focus_set, whatever the order their loops     *)
(* took the gatherers, the predicates and the objects in.                  *)
C37_OrderIndependent ==
    \A g1, g2 \in 1..Len(gatherings.cache_of) :
        (Asked(g1) /\ Asked(g2)) => CacheOf(g1) = CacheOf(g2)

----------------------------------------------------------------------------
(* The Focus of an iri that is followed.                                   *)

(* the frame i is a call of __gather_by_pathset made from the loop over    *)
(* the objects of the frame below                                          *)
FollowedInto(i) ==
    /\ i \in 2..Len(stack)
    /\ stack[i].op = "gather_by_pathset"
    /\ stack[i - 1].op = "gather_by_pathset"
    /\ stack[i - 1].phase = "objs"

(* C38: the Focus that a pull gathers for below a loop over objects has    *)
(* as its single_iri one of the iris of that loop, the one it was rebuilt  *)
(* from; and a first ask for part of part returns every object that a      *)
(* gatherer yielded as a twople under part for a Focus rebuilt on the way. *)
C38_RebuiltUnderItsIri ==
    /\ \A i \in 1..Len(stack) :
            FollowedInto(i) => Iri(single_iri(stack[i].focus)) \in IteratedNow(i - 1)
    /\ (call.status = "returned" /\ call.fresh
            /\ call.tidy = (PART :> (PART :> EmptyDict))) =>
            \A t \in call.yielded :
                (t[1].k = "iri" /\ t[2].v = PART /\ t[1].v # single_iri(call.focus)) =>
                    Unwrapped(t[3]) \in call.result

----------------------------------------------------------------------------
(* Queries of merged pathsets.                                             *)

(* C39: what q yields for an iterable of two pathsets is, as a set, what   *)
(* it yields for the one together with what it yields for the other.       *)
C39_MergedQueryIsUnion ==
    made.op = "q" => made.q_both = made.q_first \cup made.q_second

----------------------------------------------------------------------------
(* Growth of the cache.                                                    *)

(* C40: no step of an ask, of ask_all_about or of a peek takes a triple    *)
(* out of the graph, a pair out of gathers_done or a Focus out of          *)
(* focus_set.                                                              *)
C40_MonotonicGrowth ==
    [][/\ iter_tripleset(dicts[DictOfCache]) \subseteq iter_tripleset(dicts'[DictOfCache])
       /\ gathers_done \subseteq gathers_done'
       /\ focus_set \subseteq focus_set']_vars

(* a peek after ask_all_about returned: the cache holds what was gathered  *)
(* about c, b and a                                                        *)
C40_Witness ==
    /\ call.status = "peeked"
    /\ call.result # {}
    /\ all_about.status = "returned"
    /\ {"a", "b", "c"} \subseteq DOMAIN dicts[DictOfCache]
    /\ Cardinality(focus_set) >= 3
    /\ Cardinality(gathers_done) >= 3

====
